---- MODULE Spec2Model ----
(***************************************************************************)
(* Model of eventsourcing_sqlalchemy: the SQLAlchemyDatastore transaction  *)
(* coordinator (datastore.py) and the aggregate / application / tracking / *)
(* process recorders (recorders.py) working on one database, with the      *)
(* subscription of the application recorder.                               *)
(*                                                                         *)
(* Each thread of the model is one call context (ContextVar scope).  The   *)
(* database is modelled at statement level: a session keeps its ORM        *)
(* pending objects apart from the rows it has flushed but not committed;   *)
(* every statement reads the committed rows plus the session's own         *)
(* flushed rows (READ COMMITTED); unique indexes are checked when a row is *)
(* flushed; a statement that touches a row another open transaction has    *)
(* written waits for that transaction to end.                              *)
(***************************************************************************)
EXTENDS Integers, Sequences, FiniteSets, TLC

\* ---------------------------------------------------------------- bounds
NumThreads == 2
MaxCalls == 3
MaxFaultCalls == 2
MaxInserts == 2
MaxProcessInserts == 3
MaxVersion == 2
MaxPosition == 2
MaxBatch == 2
MaxRows == 3
MaxQueryVersion == 3
MaxQueries == 1

\* ---------------------------------------------------------------- values
\* Python's None where the code returns "int | None".
None == 0 - 1

Threads == 1..NumThreads

\* engine.dialect.name, with SQLite split by is_sqlite_in_memory_db.
Dialects == {"sqlite_memory", "sqlite_file", "postgresql", "mssql"}

Originators == {"a"}
Applications == {"x"}

\* A Python bytes object; value stands for its content.
Bytes(value) == [type |-> "bytes", value |-> value]

Topics == {"Created", "Changed"}

\* StoredEvent as passed to insert_events.  The writers' events all have
\* one topic and one state: no write depends on them.
StoredEvent ==
    [originator_id : Originators, originator_version : 1..MaxVersion,
     topic : {"Created"}, state : {Bytes(1)}]
Batches == UNION {[1..n -> StoredEvent] : n \in 0..MaxBatch}

\* Tracking objects; NoTracking stands for tracking=None.
Tracking == [application_name : Applications, notification_id : 1..MaxPosition]
NoTracking == [application_name |-> "", notification_id |-> None]

\* ------------------------------------------------------------ small helpers
Max(S) == CHOOSE x \in S : \A y \in S : y <= x

SeqToSet(s) == {s[i] : i \in 1..Len(s)}

\* ---------------------------------------------------------- lock policy
\* SQLAlchemyDatastore.__init__: in-memory SQLite gets the access lock,
\* file SQLite the write lock, any other URL no lock.
HasAccessLock(d) == d = "sqlite_memory"
HasWriteLock(d) == d = "sqlite_file"

\* The lock a new transaction takes in SQLAlchemyDatastore.transaction.
TakesLockCommitOnly(d, commit) == commit /\ (HasAccessLock(d) \/ HasWriteLock(d))
TakesLockAnyIntent(d, commit) == HasAccessLock(d) \/ HasWriteLock(d)
TakesLock(d, commit) == HasAccessLock(d) \/ (commit /\ HasWriteLock(d))

\* _lock_table: LOCK TABLE ... IN EXCLUSIVE MODE only on PostgreSQL; "mssql"
\* is a pass and every other dialect falls through.
LocksTableMutant(d) == FALSE
LocksTableOnMssql(d) == d = "mssql"
LocksTable(d) == d = "postgresql"

\* Autoincrement kind: SQLite INTEGER PRIMARY KEY takes max(rowid)+1 of the
\* rows the connection sees, the servers use a sequence / identity counter
\* that is not rolled back.
UsesSequence(d) == d \in {"postgresql", "mssql"}

\* ------------------------------------------------------- the datastore
\* Database URLs, one or two of each kind the constructor tells apart;
\* NoUrl stands for url=None (or the empty string).
NoUrl == ""
Urls ==
    {"sqlite:///:memory:", "sqlite:///file:db?mode=memory&uri=true",
     "sqlite:///events.db", "postgresql://host/db", "mssql+pyodbc://host/db"}

\* url.startswith("sqlite")
StartsWithSqlite(url) ==
    url \in {"sqlite:///:memory:", "sqlite:///file:db?mode=memory&uri=true",
             "sqlite:///events.db"}

\* ":memory:" in url or "mode=memory" in url
InMemory(url) ==
    url \in {"sqlite:///:memory:", "sqlite:///file:db?mode=memory&uri=true"}

\* engine.dialect.name of create_engine(url), SQLite split as in Dialects.
DialectOf(url) ==
    CASE StartsWithSqlite(url) /\ InMemory(url) -> "sqlite_memory"
      [] StartsWithSqlite(url) /\ ~InMemory(url) -> "sqlite_file"
      [] url = "postgresql://host/db" -> "postgresql"
      [] OTHER -> "mssql"

\* The URL the datastore of each dialect is built from.
UrlOf(d) ==
    CASE d = "sqlite_memory" -> "sqlite:///:memory:"
      [] d = "sqlite_file" -> "sqlite:///events.db"
      [] d = "postgresql" -> "postgresql://host/db"
      [] OTHER -> "mssql+pyodbc://host/db"

\* The attributes SQLAlchemyDatastore.__init__ sets before it looks at its
\* arguments.  A lock, the engine, the session factory and the scoped
\* session are each TRUE when the attribute holds an object and FALSE when
\* it is None (engine and session_maker: or was never assigned).
NoDatastore ==
    [constructed |-> FALSE, scoped_session |-> FALSE,
     is_sqlite_in_memory_db |-> FALSE, access_lock |-> FALSE,
     write_lock |-> FALSE, engine |-> FALSE, session_maker |-> FALSE]

\* SQLAlchemyDatastore.set_scoped_session
SetScopedSession(ds) ==
    [ds EXCEPT !.scoped_session = TRUE, !.access_lock = FALSE,
               !.write_lock = FALSE, !.engine = TRUE,
               !.session_maker = FALSE]

\* SQLAlchemyDatastore.__init__(session, session_maker, url): the branch
\* taken and the attributes it leaves.  session and session_maker say
\* whether the argument was given.
NewDatastoreMutant(with_session, with_session_maker, url) ==
    LET ds == [NoDatastore EXCEPT !.constructed = TRUE]
    IN  IF with_session THEN SetScopedSession(ds)
        ELSE IF with_session_maker
        THEN [ds EXCEPT !.session_maker = TRUE, !.engine = TRUE]
        ELSE IF url # NoUrl
        THEN [ds EXCEPT
                !.is_sqlite_in_memory_db = StartsWithSqlite(url) /\ InMemory(url),
                !.access_lock = StartsWithSqlite(url),
                !.write_lock = StartsWithSqlite(url) /\ ~InMemory(url),
                !.engine = TRUE, !.session_maker = TRUE]
        ELSE ds
NewDatastore(with_session, with_session_maker, url) ==
    LET ds == [NoDatastore EXCEPT !.constructed = TRUE]
    IN  IF with_session THEN SetScopedSession(ds)
        ELSE IF with_session_maker
        THEN [ds EXCEPT !.session_maker = TRUE, !.engine = TRUE]
        ELSE IF url # NoUrl
        THEN [ds EXCEPT
                !.is_sqlite_in_memory_db = StartsWithSqlite(url) /\ InMemory(url),
                !.access_lock = StartsWithSqlite(url) /\ InMemory(url),
                !.write_lock = StartsWithSqlite(url) /\ ~InMemory(url),
                !.engine = TRUE, !.session_maker = TRUE]
        ELSE ds

\* The exception SQLAlchemyDatastore.__init__ raises: none on any branch;
\* without session, session factory and URL it returns a datastore that
\* has no engine and no session factory.
NewDatastoreRaises(with_session, with_session_maker, url) == ""

\* SQLAlchemyDatastore.record_classes: per table name the record class
\* defined for it and the base class it was derived from.  A record class
\* is known by the arguments of the type(...) call that made it.
TableNames == {"stored_events", "notification_tracking"}
BaseClasses == {"StoredEventRecord", "NotificationTrackingRecord"}
ClassNames == {"StoredEvent", "NotificationTrackingRecord"}

NoRecordClass == [cls_name |-> "", table_name |-> "", base_cls |-> ""]
NoRecordClasses == [n \in TableNames |-> NoRecordClass]

\* define_record_class(cls_name, table_name, base_cls) on the registry
\* classes: the class returned, the exception raised and the registry left.
DefineRecordClassMutant(classes, cls_name, table_name, base_cls) ==
    LET record_class == [cls_name |-> cls_name, table_name |-> table_name,
                         base_cls |-> base_cls]
    IN  [result |-> record_class, exc |-> "",
         classes |-> [classes EXCEPT ![table_name] = record_class]]
DefineRecordClass(classes, cls_name, table_name, base_cls) ==
    IF classes[table_name] # NoRecordClass
    THEN IF classes[table_name].base_cls # base_cls
         THEN [result |-> NoRecordClass, exc |-> "ValueError",
               classes |-> classes]
         ELSE [result |-> classes[table_name], exc |-> "",
               classes |-> classes]
    ELSE LET record_class == [cls_name |-> cls_name,
                              table_name |-> table_name,
                              base_cls |-> base_cls]
         IN  [result |-> record_class, exc |-> "",
              classes |-> [classes EXCEPT ![table_name] = record_class]]

\* The registry once the application recorder and the tracking recorder
\* have been constructed (SQLAlchemyAggregateRecorder.__init__,
\* SQLAlchemyTrackingRecorder.__init__).
RecorderClasses ==
    DefineRecordClass(
        DefineRecordClass(NoRecordClasses, "StoredEvent", "stored_events",
                          "StoredEventRecord").classes,
        "NotificationTrackingRecord", "notification_tracking",
        "NotificationTrackingRecord").classes

\* No subscription has been made: no SQLAlchemySubscription object, no
\* listener thread.  thread: where _listen_thread is ("none": never
\* started, "dead": _listen has returned or was left by an exception);
\* conn: the listener's connection; driver: engine.dialect.driver;
\* pending: the notifications that wait on the listener's connection;
\* exit: where the owner is in __exit__ ("no": not called, "join": waiting
\* for the listener thread, "done": returned).
NoSubscription ==
    [exists |-> FALSE, driver |-> "", thread |-> "none", conn |-> "none",
     thread_error |-> "", has_been_stopped |-> FALSE,
     has_been_notified |-> FALSE, pending |-> 0, exit |-> "no"]

\* ------------------------------------------------------------- the state
VARIABLES
    dialect,        \* backend of the datastore, fixed at construction
    semaphore,      \* value of the access_lock / write_lock Semaphore
    tried_wal,      \* _tried_init_sqlite_wal_mode
    is_sqlite_wal_mode,
    table_lock,     \* thread whose transaction holds LOCK TABLE, 0 if none
    sequence,       \* last value handed out by the sequence / identity
    events,         \* committed rows of the stored events table
    tracking,       \* committed rows of the notification tracking table
    transactions,   \* the ContextVar: per thread its current Transaction
    session,        \* per thread the Session of its current Transaction
    call,           \* per thread the recorder call in progress
    raised,         \* per thread the exception unwinding the caller's block
    last,           \* the outcome of the call that finished last, and its thread
    seen,           \* greatest committed ID a select_notifications returned
    calls,          \* number of calls and caller blocks started so far
    inserts,        \* number of insert_events / insert_tracking calls so far
    datastore,      \* fields of the SQLAlchemyDatastore
    record_classes, \* SQLAlchemyDatastore.record_classes, by table name
    subscription    \* the SQLAlchemySubscription and its listener thread

vars == <<dialect, semaphore, tried_wal, is_sqlite_wal_mode, table_lock,
          sequence, events, tracking, transactions, session, call, raised,
          last, seen, calls, inserts, datastore, record_classes,
          subscription>>

\* What the recorder calls and the transactions leave alone.
setup == <<datastore, record_classes, subscription>>

\* Transaction.__init__; active says the thread is inside the with
\* statement of the transaction.  The ContextVar holds it then, unless it
\* works on a scoped session: that one is known to its with statement
\* only.  owner: the SQLAlchemyDatastore instance whose transaction()
\* made it, with a session and the lock of that datastore ("self": the
\* datastore of the recorders, "other": a second instance).
NoTransaction ==
    [active |-> FALSE, commit |-> FALSE, lock |-> FALSE, nested_level |-> 0,
     begun |-> 0, is_scoped_session |-> FALSE, owner |-> ""]

\* ORM-level pending change of the tracking table (at most one at a time,
\* because _insert_tracking starts with queries that autoflush).
NoPending == [kind |-> "none", old |-> NoTracking, new |-> NoTracking]

\* A fresh Session from session_maker().
NewSession ==
    [new_events |-> <<>>,       \* session.add(record), not yet flushed
     pending |-> NoPending,     \* tracking insert / update, not yet flushed
     ins_events |-> {},         \* event rows flushed, not committed
     trk_del |-> {},            \* tracking rows this transaction replaced
     trk_add |-> {},            \* tracking rows this transaction wrote
     notify |-> FALSE]          \* NOTIFY executed, delivered at commit

\* The frame of a recorder call.  own: the call's with-block is the
\* outermost one.  overlap: the tracking objects that tracked insert_events
\* calls of other threads have committed since this call began.
Idle ==
    [op |-> "idle", phase |-> "", stored_events |-> <<>>,
     tracking |-> NoTracking, ids |-> <<>>, own |-> FALSE, overlap |-> {}]

\* What a finished call was given and what it gave back: the exception
\* raised (exc), the notification IDs returned (ids), the records read
\* (rows), the number read (value).  nested: it ran in the caller's block.
\* For the end of a with-block: the exception that left the block
\* (block_exc), the failure of its commit or rollback (fault) and whether
\* its commit delivered a NOTIFY to the channel's listeners (notified).  For a
\* query: its arguments (args), the list returned (list) and the records
\* it was made from (rows).  For a call on the datastore or subscribe: its
\* arguments (input) and the object returned (result).
NoArgs ==
    [originator_id |-> "", gt |-> None, lte |-> None, desc |-> FALSE,
     limit |-> None, start |-> None, stop |-> None, topics |-> <<>>,
     inclusive_of_start |-> TRUE]
NoResult ==
    [thread |-> 0, op |-> "", stored_events |-> <<>>, tracking |-> NoTracking,
     exc |-> "", ids |-> <<>>, rows |-> {}, value |-> None, nested |-> FALSE,
     block_exc |-> "", fault |-> "", args |-> NoArgs, list |-> <<>>,
     notified |-> FALSE, input |-> <<>>, result |-> ""]

Init ==
    /\ dialect \in Dialects
    /\ semaphore = 1
    /\ tried_wal = FALSE
    /\ is_sqlite_wal_mode = FALSE
    /\ table_lock = 0
    /\ sequence = 0
    /\ events = {}
    /\ tracking = {}
    /\ transactions = [t \in Threads |-> NoTransaction]
    /\ session = [t \in Threads |-> NewSession]
    /\ call = [t \in Threads |-> Idle]
    /\ raised = [t \in Threads |-> ""]
    /\ last = NoResult
    /\ seen = 0
    /\ calls = 0
    /\ inserts = 0
    /\ datastore = NewDatastore(FALSE, FALSE, UrlOf(dialect))
    /\ record_classes = RecorderClasses
    /\ subscription = NoSubscription

\* ------------------------------------------------------- database rows
EventRow(id, e) ==
    [id |-> id, originator_id |-> e.originator_id,
     originator_version |-> e.originator_version,
     topic |-> e.topic, state |-> e.state]

\* The unique index on (originator_id, originator_version) of
\* StoredEventRecord.__table_args__.
UniqueViolationMutant(e, rows) == FALSE
UniqueViolation(e, rows) ==
    \E r \in rows : /\ r.originator_id = e.originator_id
                    /\ r.originator_version = e.originator_version

\* The primary key (application_name, notification_id) of
\* NotificationTrackingRecord.
TrackingKeyViolation(row, rows) == row \in rows

\* What the statements of a session read.
EventsView(s) == events \cup s.ins_events
TrackingView(s) == (tracking \ s.trk_del) \cup s.trk_add

\* id = Column(..., primary_key=True, autoincrement=True)
AutoIncrementMutant(seq, visible) == 1
AutoIncrement(seq, visible) ==
    IF UsesSequence(dialect) THEN seq + 1
    ELSE IF visible = {} THEN 1 ELSE Max({r.id : r \in visible}) + 1

\* The INSERTs of one flush, row by row in session.add order.  The rows
\* before a failing one stay written in the open transaction.
RECURSIVE InsertRows(_, _, _, _)
InsertRows(rows, visible, inserted, seq) ==
    IF rows = <<>>
    THEN [ins |-> inserted, seq |-> seq, ids |-> <<>>, error |-> ""]
    ELSE LET e == Head(rows)
             id == AutoIncrement(seq, visible \cup inserted)
             nseq == IF UsesSequence(dialect) THEN id ELSE seq
         IN  IF UniqueViolation(e, visible \cup inserted)
             THEN [ins |-> inserted, seq |-> nseq, ids |-> <<>>,
                   error |-> "sqlalchemy.exc.IntegrityError"]
             ELSE LET rest == InsertRows(Tail(rows), visible,
                                         inserted \cup {EventRow(id, e)}, nseq)
                  IN  [rest EXCEPT !.ids = <<id>> \o rest.ids]

\* The INSERT or UPDATE of the tracking row in a flush.  The UPDATE names
\* the row by its primary key as loaded; when that row is gone no row
\* matches and the ORM raises StaleDataError.
FlushTracking(s) ==
    LET p == s.pending
        view == TrackingView(s)
    IN  CASE p.kind = "insert" ->
                IF TrackingKeyViolation(p.new, view)
                THEN [trk_del |-> s.trk_del, trk_add |-> s.trk_add,
                      error |-> "sqlalchemy.exc.IntegrityError"]
                ELSE [trk_del |-> s.trk_del, trk_add |-> s.trk_add \cup {p.new},
                      error |-> ""]
          [] p.kind = "update" ->
                IF p.old \notin view
                THEN [trk_del |-> s.trk_del, trk_add |-> s.trk_add,
                      error |-> "sqlalchemy.orm.exc.StaleDataError"]
                ELSE IF TrackingKeyViolation(p.new, view \ {p.old})
                THEN [trk_del |-> s.trk_del, trk_add |-> s.trk_add,
                      error |-> "sqlalchemy.exc.IntegrityError"]
                ELSE [trk_del |-> s.trk_del \cup ({p.old} \cap tracking),
                      trk_add |-> (s.trk_add \ {p.old}) \cup {p.new},
                      error |-> ""]
          [] OTHER -> [trk_del |-> s.trk_del, trk_add |-> s.trk_add, error |-> ""]

\* session.flush() (also the autoflush before a query and the flush in
\* session.commit()): writes the pending objects of session state s.
FlushSession(s, seq) ==
    LET tr == FlushTracking(s)
        s1 == [s EXCEPT !.pending = NoPending, !.trk_del = tr.trk_del,
                        !.trk_add = tr.trk_add]
    IN  IF tr.error # ""
        THEN [session |-> [s1 EXCEPT !.new_events = <<>>], sequence |-> seq,
              ids |-> <<>>, error |-> tr.error]
        ELSE LET ev == InsertRows(s.new_events, EventsView(s), {}, seq)
             IN  [session |-> [s1 EXCEPT !.new_events = <<>>,
                                         !.ins_events = @ \cup ev.ins],
                  sequence |-> ev.seq, ids |-> ev.ids, error |-> ev.error]

\* A statement that writes a row waits while another open transaction holds
\* an uncommitted write of the same key; on SQLite, which has one writer
\* at a time, while another open transaction holds any uncommitted write.
Writes(s) == s.new_events # <<>> \/ s.pending.kind # "none"
HasWritten(s) == s.ins_events # {} \/ s.trk_del # {} \/ s.trk_add # {}

CanFlush(t, s) ==
    \A u \in Threads \ {t} :
        /\ \A i \in 1..Len(s.new_events) :
              ~UniqueViolation(s.new_events[i], session[u].ins_events)
        /\ s.pending.kind # "none" =>
              {s.pending.old, s.pending.new}
                  \cap (session[u].trk_del \cup session[u].trk_add) = {}
        /\ ~UsesSequence(dialect) /\ Writes(s) => ~HasWritten(session[u])

\* ------------------------------------------------- Transaction (datastore)
\* A sqlalchemy.exc.OperationalError whose args[0] is a
\* sqlite3.OperationalError, and the DBAPI's own exception.
SqliteOperationalError ==
    "sqlalchemy.exc.OperationalError(sqlite3.OperationalError)"
Sqlite3Error == "sqlite3.OperationalError"

\* The exception classes of SQLAlchemy that __exit__ tells apart;
\* "sqlalchemy.exc.SQLAlchemyError" stands for any other one.
SQLAlchemyErrors ==
    {"sqlalchemy.exc.InterfaceError", "sqlalchemy.exc.DataError",
     "sqlalchemy.exc.OperationalError", SqliteOperationalError,
     "sqlalchemy.exc.IntegrityError", "sqlalchemy.exc.InternalError",
     "sqlalchemy.exc.ProgrammingError", "sqlalchemy.exc.NotSupportedError",
     "sqlalchemy.exc.DatabaseError", "sqlalchemy.exc.SQLAlchemyError"}

\* The failures a statement or a commit of the backend can end with, and
\* those of a rollback: an operational error (the database is locked, the
\* connection is lost), on SQLite also as the bare DBAPI error that the
\* "except sqlite3.OperationalError" around the rollback expects.  SQLite's
\* errors occur on the SQLite dialects only.
PossibleFaults(d, rollback) ==
    LET sqlite == d \in {"sqlite_memory", "sqlite_file"}
        all == IF rollback
               THEN {"sqlalchemy.exc.OperationalError",
                     SqliteOperationalError, Sqlite3Error}
               ELSE SQLAlchemyErrors
    IN  IF sqlite THEN all ELSE all \ {SqliteOperationalError, Sqlite3Error}
Faults(d) == {""} \cup PossibleFaults(d, FALSE) \cup PossibleFaults(d, TRUE)

\* The except clauses of Transaction.__exit__ that turn a backend exception
\* into the eventsourcing one; other exceptions pass unchanged.
TranslateMutant(exc) == exc
Translate(exc) ==
    CASE exc = "sqlalchemy.exc.InterfaceError" -> "InterfaceError"
      [] exc = "sqlalchemy.exc.DataError" -> "DataError"
      [] exc = "sqlalchemy.exc.OperationalError" -> "OperationalError"
      [] exc = SqliteOperationalError -> "OperationalError"
      [] exc = "sqlalchemy.exc.IntegrityError" -> "IntegrityError"
      [] exc = "sqlalchemy.exc.InternalError" -> "InternalError"
      [] exc = "sqlalchemy.exc.ProgrammingError" -> "ProgrammingError"
      [] exc = "sqlalchemy.exc.NotSupportedError" -> "NotSupportedError"
      [] exc = "sqlalchemy.exc.DatabaseError" -> "DatabaseError"
      [] exc = "sqlalchemy.exc.SQLAlchemyError" -> "PersistenceError"
      [] exc = "sqlalchemy.orm.exc.StaleDataError" -> "PersistenceError"
      [] OTHER -> exc

\* What the except clauses make of an exception raised in the try block of
\* __exit__: the exception __exit__ raises, "" when it raises none (the
\* "pass" for a SQLite operational error while the transaction has a lock).
Handled(exc, lock) ==
    IF exc = SqliteOperationalError /\ lock THEN "" ELSE Translate(exc)

\* "if not self.is_scoped_session" before begin, commit, rollback and
\* close: the transaction leaves a scoped session to its owner.
OwnsSessionMutant(txn) == TRUE
OwnsSession(txn) == ~txn.is_scoped_session

\* Transaction.__enter__
Enter(txn) ==
    [txn EXCEPT !.begun = IF txn.nested_level = 0 /\ OwnsSession(txn)
                          THEN @ + 1 ELSE @,
                !.nested_level = @ + 1]

\* "if self.nested_level == 0" in Transaction.__exit__
OutermostMutant(level) == TRUE
Outermost(level) == level = 0

\* "if exc_val: self.session.rollback(); raise exc_val" and the except
\* clauses after it: nothing the session wrote is committed.
RollbackOnErrorMutant(txn, s, seq, exc_val, fault) ==
    [events |-> events \cup s.ins_events, tracking |-> TrackingView(s),
     sequence |-> seq, exc |-> Translate(exc_val)]
RollbackOnError(txn, s, seq, exc_val, fault) ==
    LET in_try == IF fault # "" THEN fault ELSE exc_val
        out == Handled(in_try, txn.lock)
    IN  [events |-> events, tracking |-> tracking, sequence |-> seq,
         exc |-> IF out # "" THEN out ELSE exc_val]

\* Transaction.__exit__ at the outermost level, for a session in state s,
\* the block left with exc_val ("" for a normal end) and the commit or
\* rollback failing with fault ("" when it works): roll back on an
\* exception or when commit is False, otherwise commit (which flushes
\* first).  exc is the exception the with statement ends with: the one
\* __exit__ raises, or exc_val again when __exit__ raises none.  On a
\* scoped session only "raise exc_val" and the except clauses are left.
ExitOutcome(txn, s, seq, exc_val, fault) ==
    IF ~OwnsSession(txn)
    THEN [events |-> events, tracking |-> tracking, sequence |-> seq,
          exc |-> IF exc_val # "" /\ Handled(exc_val, txn.lock) # ""
                  THEN Handled(exc_val, txn.lock) ELSE exc_val]
    ELSE IF exc_val # ""
    THEN RollbackOnError(txn, s, seq, exc_val, fault)
    ELSE IF ~txn.commit
    THEN [events |-> events, tracking |-> tracking, sequence |-> seq,
          exc |-> IF fault = Sqlite3Error THEN ""
                  ELSE Handled(fault, txn.lock)]
    ELSE LET f == FlushSession(s, seq)
             error == IF f.error # "" THEN f.error ELSE fault
         IN  IF error # ""
             THEN [events |-> events, tracking |-> tracking,
                   sequence |-> f.sequence, exc |-> Handled(error, txn.lock)]
             ELSE [events |-> events \cup f.session.ins_events,
                   tracking |-> TrackingView(f.session),
                   sequence |-> f.sequence, exc |-> ""]

\* The finally clause of __exit__ releases the lock the transaction has,
\* whatever the try block and the except clauses did.
ReleasedMutant(txn, exc) == txn.lock /\ exc = ""
Released(txn, exc) == txn.lock

\* Transaction.__exit__ of thread t's transaction txn, its session being in
\* state s, the sequence at seq and the table lock at tl.  Only the
\* outermost exit ends the transaction; the finally clause releases the
\* lock, closes the session and resets the ContextVar.  Commit and rollback
\* end the table lock as well.  A scoped session stays as it is, with what
\* it has flushed and its table lock, for its owner to commit; after an
\* exception it holds nothing: the failed flush has rolled its
\* transaction back.
LeaveTransaction(t, txn, exc_val, s, seq, tl, fault) ==
    LET level == txn.nested_level - 1
        out == ExitOutcome(txn, s, seq, exc_val, fault)
    IN  IF Outermost(level)
        THEN /\ events' = out.events
             /\ tracking' = out.tracking
             /\ sequence' = out.sequence
             /\ semaphore' = IF Released(txn, out.exc) THEN semaphore + 1
                            ELSE semaphore
             /\ table_lock' = IF tl = t /\ (OwnsSession(txn) \/ exc_val # "")
                              THEN 0 ELSE tl
             /\ transactions' = [transactions EXCEPT ![t] = NoTransaction]
             /\ session' = [session EXCEPT ![t] =
                               IF OwnsSession(txn) \/ exc_val # ""
                               THEN NewSession ELSE s]
        ELSE /\ transactions' = [transactions EXCEPT ![t] =
                                    [txn EXCEPT !.nested_level = level]]
             /\ session' = [session EXCEPT ![t] = s]
             /\ sequence' = seq
             /\ table_lock' = tl
             /\ UNCHANGED <<events, tracking, semaphore>>

\* PostgreSQL delivers the NOTIFY a transaction executed when, and only
\* when, the transaction commits.
LeaveNotified(txn, exc_val, s, seq, fault) ==
    /\ Outermost(txn.nested_level - 1)
    /\ OwnsSession(txn)
    /\ s.notify
    /\ exc_val = "" /\ txn.commit /\ fault = ""
    /\ FlushSession(s, seq).error = ""

\* _notify_channel at the commit: the NOTIFY reaches the connection on
\* which the listener has executed LISTEN and waits there until the
\* listener's handler takes it.
SignalledMutant(sub, notified) == sub
Signalled(sub, notified) ==
    IF notified /\ sub.conn = "open"
    THEN [sub EXCEPT !.pending = @ + 1]
    ELSE sub

\* The exception the with statement hands to its caller.
LeaveException(txn, exc_val, s, seq, fault) ==
    IF Outermost(txn.nested_level - 1)
    THEN ExitOutcome(txn, s, seq, exc_val, fault).exc
    ELSE exc_val

\* init_sqlite_wal_mode on the first transaction request: the PRAGMA is sent
\* to a file SQLite database only and may or may not answer "wal".
InitWal ==
    /\ tried_wal' = TRUE
    /\ IF ~tried_wal /\ dialect = "sqlite_file" /\ ~is_sqlite_wal_mode
       THEN is_sqlite_wal_mode' \in BOOLEAN
       ELSE UNCHANGED is_sqlite_wal_mode

\* SQLAlchemyDatastore.transaction when the ContextVar is empty: one-time
\* WAL attempt, lock acquisition, new session, new Transaction, and then
\* the __enter__ of the with statement.
\* The lock is one the datastore has.
AcquiresLock(commit) ==
    /\ datastore.access_lock \/ datastore.write_lock
    /\ TakesLock(dialect, commit)

CanAcquire(commit) == AcquiresLock(commit) => semaphore > 0

\* "session = self.session_maker()" or "session = self.scoped_session"
SessionFor(t) == IF datastore.scoped_session THEN session[t] ELSE NewSession

OpenTransaction(t, commit) ==
    /\ CanAcquire(commit)
    /\ InitWal
    /\ semaphore' = IF AcquiresLock(commit) THEN semaphore - 1 ELSE semaphore
    /\ transactions' = [transactions EXCEPT ![t] =
           Enter([NoTransaction EXCEPT
                     !.active = TRUE, !.commit = commit,
                     !.lock = AcquiresLock(commit),
                     !.is_scoped_session = datastore.scoped_session,
                     !.owner = "self"])]
    /\ session' = [session EXCEPT ![t] = SessionFor(t)]

\* SQLAlchemyDatastore.transaction when the ContextVar holds a transaction:
\* the request is answered with that transaction, or with ProgrammingError.
RequestRefusedMutant(t, commit) == FALSE
RequestRefused(t, commit) ==
    transactions[t].active /\ commit /\ ~transactions[t].commit

CanStart(t) == call[t].op = "idle" /\ raised[t] = "" /\ calls < MaxCalls

\* A caller's own "with datastore.transaction(commit) as session:" block.
EnterTransaction(t, commit) ==
    /\ CanStart(t)
    /\ ~transactions[t].active
    /\ OpenTransaction(t, commit)
    /\ calls' = calls + 1
    /\ UNCHANGED setup
    /\ UNCHANGED <<dialect, table_lock, sequence, events, tracking, call,
                   raised, last, seen, inserts>>

\* The end of the caller's block: normally, with the exception a recorder
\* call raised in it, or with an exception exc of the caller's own code;
\* rows: the event rows the block had flushed.
ExitTransaction(t, exc, fault) ==
    /\ call[t].op = "idle"
    /\ transactions[t].active /\ transactions[t].nested_level > 0
    /\ raised[t] # "" => exc = ""
    /\ fault # "" => Outermost(transactions[t].nested_level - 1)
    /\ LET exc_val == IF raised[t] # "" THEN raised[t] ELSE exc
       IN  /\ exc_val = "" /\ transactions[t].commit => CanFlush(t, session[t])
           /\ fault # "" =>
                 fault \in PossibleFaults(dialect, exc_val # ""
                                                     \/ ~transactions[t].commit)
           /\ LeaveTransaction(t, transactions[t], exc_val, session[t],
                               sequence, table_lock, fault)
           /\ last' = [NoResult EXCEPT !.thread = t, !.op = "transaction",
                      !.exc = LeaveException(transactions[t], exc_val,
                                             session[t], sequence, fault),
                      !.rows = session[t].ins_events,
                      !.block_exc = exc_val, !.fault = fault,
                      !.notified = LeaveNotified(transactions[t], exc_val,
                                                 session[t], sequence, fault)]
    /\ raised' = [raised EXCEPT ![t] = ""]
    /\ subscription' = Signalled(subscription, last'.notified)
    /\ UNCHANGED <<datastore, record_classes>>
    /\ UNCHANGED <<dialect, tried_wal, is_sqlite_wal_mode, call, seen, calls,
                   inserts>>

\* ------------------------------------------------------------- recorders
\* An exception of a recorder call that ran inside the caller's block goes
\* to the caller's code.  A backend exception leaves the session unusable
\* until it is rolled back, so it ends the block; an exception raised by
\* the recorder itself may be caught by the caller, who then carries on.
BackendError(exc) ==
    exc \in {"sqlalchemy.exc.IntegrityError", "sqlalchemy.orm.exc.StaleDataError"}

Unwinding(t, own, exc) ==
    IF own \/ exc = "" THEN {raised[t]}
    ELSE IF BackendError(exc) THEN {exc}
    ELSE {"", exc}

\* The end of the with-block of the recorder call of thread t, by return or
\* by the exception exc_val, and the return of the call.
FinishCall(t, exc_val, s, seq, tl, stored_events, trk, ids, fault) ==
    LET exc == LeaveException(transactions[t], exc_val, s, seq, fault)
        committed == /\ exc = "" /\ fault = ""
                     /\ call[t].own /\ trk # NoTracking
                     /\ call[t].op = "insert_events"
    IN  /\ LeaveTransaction(t, transactions[t], exc_val, s, seq, tl, fault)
        /\ last' = [NoResult EXCEPT !.thread = t, !.op = call[t].op,
                                !.stored_events = stored_events,
                                !.tracking = trk, !.exc = exc,
                                !.ids = IF exc = "" THEN ids ELSE <<>>,
                                !.nested = ~call[t].own,
                                !.block_exc = exc_val, !.fault = fault,
                                !.notified = LeaveNotified(transactions[t],
                                                 exc_val, s, seq, fault)]
        /\ \E r \in IF transactions[t].is_scoped_session /\ exc # ""
                     THEN {exc} ELSE Unwinding(t, call[t].own, exc) :
               raised' = [raised EXCEPT ![t] = r]
        /\ call' = [u \in Threads |->
                       IF u = t THEN Idle
                       ELSE IF committed /\ call[u].op # "idle"
                       THEN [call[u] EXCEPT !.overlap = @ \cup {trk}]
                       ELSE call[u]]

\* The "with self.transaction(commit=True) as session:" that opens
\* insert_events and insert_tracking.  The arguments of the call enter the
\* model where the code first reads them: the tracking object in
\* HasTrackingId, the stored events in InsertStoredEvents.
BeginCall(t, op, tracked) ==
    /\ CanStart(t)
    /\ calls' = calls + 1
    /\ inserts' = inserts + 1
    /\ IF RequestRefused(t, TRUE)
       THEN /\ last' = [NoResult EXCEPT !.thread = t, !.op = op,
                                    !.exc = "ProgrammingError",
                                    !.nested = TRUE]
            /\ \E r \in Unwinding(t, FALSE, "ProgrammingError") :
                   raised' = [raised EXCEPT ![t] = r]
            /\ UNCHANGED <<semaphore, tried_wal, is_sqlite_wal_mode,
                           transactions, session, call>>
       ELSE /\ call' = [call EXCEPT ![t] =
                   [op |-> op,
                    phase |-> IF tracked THEN "tracking" ELSE "insert",
                    stored_events |-> <<>>, tracking |-> NoTracking,
                    ids |-> <<>>, own |-> ~transactions[t].active,
                    overlap |-> {}]]
            /\ IF transactions[t].active
               THEN /\ transactions' = [transactions EXCEPT ![t] = Enter(@)]
                    /\ UNCHANGED <<semaphore, tried_wal, is_sqlite_wal_mode,
                                   session>>
               ELSE OpenTransaction(t, TRUE)
            /\ UNCHANGED <<raised, last>>
    /\ UNCHANGED setup
    /\ UNCHANGED <<dialect, table_lock, sequence, events, tracking, seen>>

\* SQLAlchemyApplicationRecorder.insert_events / the process recorder's
\* insert_events(stored_events, tracking=...): the call and its request for
\* a commit transaction.
InsertEvents(t, tracked) ==
    BeginCall(t, "insert_events", tracked)

\* SQLAlchemyTrackingRecorder.insert_tracking: the call and its request.
InsertTracking(t) ==
    BeginCall(t, "insert_tracking", TRUE)

\* max_tracking_id's query: the greatest notification_id of the rows of the
\* application, None when there is no row.
MaxTrackingIdOf(rows, application_name) ==
    LET ids == {r.notification_id :
                   r \in {x \in rows : x.application_name = application_name}}
    IN  IF ids = {} THEN None ELSE Max(ids)

\* has_tracking_id: the position is covered when max_tracking_id is at
\* least the notification_id.
IsCoveredMutant(max_id, notification_id) ==
    max_id # None /\ max_id > notification_id
IsCovered(max_id, notification_id) ==
    max_id # None /\ max_id >= notification_id

\* SQLAlchemyDatastore.transaction: a request acquires a lock only when
\* the ContextVar of its call context holds no transaction.
NeedsLockMutant(t, commit) == AcquiresLock(commit)
NeedsLock(t, commit) == ~transactions[t].active /\ AcquiresLock(commit)

\* _insert_tracking, first part: has_tracking_id reads max_tracking_id in a
\* nested commit=False request (the query autoflushes) and the call raises
\* IntegrityError when the position is covered.
HasTrackingId(t, trk) ==
    /\ call[t].phase = "tracking"
    /\ NeedsLock(t, FALSE) => semaphore > 0
    /\ CanFlush(t, session[t])
    /\ LET f == FlushSession(session[t], sequence)
           max_id == MaxTrackingIdOf(TrackingView(f.session),
                                     trk.application_name)
       IN  IF f.error # ""
           THEN FinishCall(t, f.error, f.session, f.sequence, table_lock,
                           <<>>, trk, <<>>, "")
           ELSE IF IsCovered(max_id, trk.notification_id)
           THEN FinishCall(t, "IntegrityError", f.session, f.sequence,
                           table_lock, <<>>, trk, <<>>, "")
           ELSE /\ call' = [call EXCEPT ![t].phase = "existing",
                                        ![t].tracking = trk]
                /\ session' = [session EXCEPT ![t] = f.session]
                /\ sequence' = f.sequence
                /\ UNCHANGED <<semaphore, table_lock, events, tracking,
                               transactions, raised, last>>
    /\ UNCHANGED setup
    /\ UNCHANGED <<dialect, tried_wal, is_sqlite_wal_mode, seen, calls, inserts>>

\* _insert_tracking, second part: query the application's row (first() of
\* an unordered query) and set its notification_id, or add a new record.
\* Setting the attribute to the value it has leaves the object clean.
InsertTrackingRecord(t) ==
    /\ call[t].phase = "existing"
    /\ LET trk == call[t].tracking
           rows == {r \in TrackingView(session[t]) :
                       r.application_name = trk.application_name}
           next == IF call[t].op = "insert_events" THEN "insert" ELSE "exit"
       IN  /\ IF rows = {}
              THEN session' = [session EXCEPT ![t].pending =
                                  [kind |-> "insert", old |-> NoTracking,
                                   new |-> trk]]
              ELSE \E existing \in rows :
                      session' = [session EXCEPT ![t].pending =
                          IF existing = trk THEN NoPending
                          ELSE [kind |-> "update", old |-> existing,
                                new |-> trk]]
           /\ call' = [call EXCEPT ![t].phase = next]
    /\ UNCHANGED setup
    /\ UNCHANGED <<dialect, semaphore, tried_wal, is_sqlite_wal_mode,
                   table_lock, sequence, events, tracking, transactions,
                   raised, last, seen, calls, inserts>>

\* _insert_stored_events: lock the table where the dialect has the
\* statement, add the records, flush to get the autoincremented IDs.
\* _notify_channel: "if self.datastore.engine.dialect.name == 'postgresql'"
\* the session executes NOTIFY, whatever the records are.
NotifiesChannel(d, records) == d = "postgresql"

\* "return [cast(StoredEventRecord, r).id for r in records]": the IDs of
\* the records in the order of the records; ids[i] is the ID the flush
\* gave to the i-th record added.
RecordIds(ids) == [i \in 1..Len(ids) |-> ids[i]]

InsertStoredEvents(t, stored_events) ==
    /\ call[t].phase = "insert"
    /\ LocksTable(dialect) => table_lock \in {0, t}
    /\ LET s1 == [session[t] EXCEPT !.new_events = @ \o stored_events]
           tl == IF LocksTable(dialect) THEN t ELSE table_lock
           f == FlushSession(s1, sequence)
       IN  /\ CanFlush(t, s1)
           /\ IF f.error # ""
              THEN FinishCall(t, f.error, f.session, f.sequence, tl,
                              stored_events, call[t].tracking, <<>>, "")
              ELSE /\ call' = [call EXCEPT ![t].phase = "exit",
                                           ![t].stored_events = stored_events,
                                           ![t].ids = RecordIds(f.ids)]
                   /\ session' = [session EXCEPT ![t] =
                          [f.session EXCEPT !.notify =
                              @ \/ NotifiesChannel(dialect, stored_events)]]
                   /\ sequence' = f.sequence
                   /\ table_lock' = tl
                   /\ UNCHANGED <<semaphore, events, tracking, transactions,
                                  raised, last>>
    /\ UNCHANGED setup
    /\ UNCHANGED <<dialect, tried_wal, is_sqlite_wal_mode, seen, calls, inserts>>

\* The normal end of the with-block of insert_events / insert_tracking and
\* the return of the notification IDs; fault: the failure of the commit.
Return(t, fault) ==
    /\ call[t].phase = "exit"
    /\ call[t].own => CanFlush(t, session[t])
    /\ fault # "" => call[t].own /\ fault \in PossibleFaults(dialect, FALSE)
    /\ FinishCall(t, "", session[t], sequence, table_lock,
                  call[t].stored_events, call[t].tracking, call[t].ids, fault)
    /\ subscription' = Signalled(subscription, last'.notified)
    /\ UNCHANGED <<datastore, record_classes>>
    /\ UNCHANGED <<dialect, tried_wal, is_sqlite_wal_mode, seen, calls, inserts>>

\* A reading call: "with self.transaction(commit=False) as session:" around
\* one query.  Inside an open transaction the request is nested and the
\* query autoflushes the session; otherwise the call opens a transaction of
\* its own (taking the access lock), reads the committed rows, rolls back
\* and releases the lock.  R(s) is the result of the query on session s.
ReadCall(t, op, R(_)) ==
    /\ CanStart(t)
    /\ calls' = calls + 1
    /\ IF transactions[t].active
       THEN /\ CanFlush(t, session[t])
            /\ LET f == FlushSession(session[t], sequence)
               IN  /\ LeaveTransaction(t, Enter(transactions[t]), f.error,
                                       f.session, f.sequence, table_lock, "")
                   /\ last' = IF f.error # ""
                              THEN [NoResult EXCEPT !.thread = t, !.op = op,
                                       !.exc = f.error, !.nested = TRUE]
                              ELSE [R(f.session) EXCEPT !.thread = t,
                                       !.op = op, !.nested = TRUE]
                   /\ raised' = [raised EXCEPT ![t] = f.error]
            /\ UNCHANGED <<tried_wal, is_sqlite_wal_mode>>
       ELSE /\ CanAcquire(FALSE)
            /\ InitWal
            /\ last' = [R(SessionFor(t)) EXCEPT !.thread = t, !.op = op]
            /\ UNCHANGED <<semaphore, table_lock, sequence, events, tracking,
                           transactions, session, raised>>
    /\ UNCHANGED setup
    /\ UNCHANGED <<dialect, call, inserts>>

\* What the driver gives for the LargeBinary column state: psycopg2 a
\* memoryview, the other drivers bytes.
ColumnState(d, state) ==
    IF d = "postgresql" THEN [type |-> "memoryview", value |-> state.value]
    ELSE state

\* "bytes(r.state) if isinstance(r.state, memoryview) else r.state"
ToBytes(state) ==
    IF state.type = "memoryview" THEN Bytes(state.value) ELSE state

\* q.order_by(column) / q.order_by(column.desc()); key: the column's value
\* of each record.
RECURSIVE OrderBy(_, _, _)
OrderBy(records, key, desc) ==
    IF records = {} THEN <<>>
    ELSE LET first == CHOOSE r \in records : \A q \in records :
                         IF desc THEN key[q] <= key[r] ELSE key[r] <= key[q]
         IN  <<first>> \o OrderBy(records \ {first}, key, desc)

\* q[0:limit], and list(q) when there is no limit (limit >= 0).
SliceMutant(q, limit) == q
Slice(q, limit) ==
    IF limit = None \/ limit >= Len(q) THEN q ELSE SubSeq(q, 1, limit)

\* select_events(originator_id, gt, lte, desc, limit)
SelectEventsResult(s, originator_id, gt, lte, desc, limit) ==
    LET q1 == {r \in EventsView(s) : r.originator_id = originator_id}
        q2 == IF gt # None THEN {r \in q1 : r.originator_version > gt}
              ELSE q1
        q3 == IF lte # None THEN {r \in q2 : r.originator_version <= lte}
              ELSE q2
        records == Slice(OrderBy(q3, [r \in q3 |-> r.originator_version],
                                 desc), limit)
    IN  [NoResult EXCEPT
            !.rows = SeqToSet(records),
            !.list = [i \in 1..Len(records) |->
                         [originator_id |-> records[i].originator_id,
                          originator_version |->
                              records[i].originator_version,
                          topic |-> records[i].topic,
                          state |-> ToBytes(ColumnState(dialect,
                                                        records[i].state))]],
            !.args = [NoArgs EXCEPT !.originator_id = originator_id,
                         !.gt = gt, !.lte = lte, !.desc = desc,
                         !.limit = limit]]

SelectEvents(t, originator_id, gt, lte, desc, limit) ==
    /\ ReadCall(t, "select_events",
                LAMBDA s : SelectEventsResult(s, originator_id, gt, lte,
                                              desc, limit))
    /\ UNCHANGED seen

\* "if inclusive_of_start: id >= start else: id > start"
FromStartMutant(id, start, inclusive_of_start) == id >= start
FromStart(id, start, inclusive_of_start) ==
    IF inclusive_of_start THEN id >= start ELSE id > start

\* select_notifications(start, limit, stop, topics, inclusive_of_start)
SelectNotificationsResult(s, start, limit, stop, topics, inclusive_of_start) ==
    LET q1 == IF start # None
              THEN {r \in EventsView(s) :
                       FromStart(r.id, start, inclusive_of_start)}
              ELSE EventsView(s)
        q2 == IF stop # None THEN {r \in q1 : r.id <= stop} ELSE q1
        q3 == IF topics # <<>> THEN {r \in q2 : r.topic \in SeqToSet(topics)}
              ELSE q2
        q == Slice(OrderBy(q3, [r \in q3 |-> r.id], FALSE), limit)
    IN  [NoResult EXCEPT
            !.rows = SeqToSet(q),
            !.list = [i \in 1..Len(q) |->
                         [id |-> q[i].id,
                          originator_id |-> q[i].originator_id,
                          originator_version |-> q[i].originator_version,
                          topic |-> q[i].topic,
                          state |-> ToBytes(ColumnState(dialect,
                                                        q[i].state))]],
            !.args = [NoArgs EXCEPT !.start = start, !.limit = limit,
                         !.stop = stop, !.topics = topics,
                         !.inclusive_of_start = inclusive_of_start]]

SelectNotifications(t, start, limit, stop, topics, inclusive_of_start) ==
    /\ ReadCall(t, "select_notifications",
                LAMBDA s : SelectNotificationsResult(s, start, limit, stop,
                                                     topics,
                                                     inclusive_of_start))
    /\ seen' = Max({seen} \cup {r.id : r \in last'.rows \cap events})

\* max_notification_id(): the id of the first record in descending order
\* of id; records[0] of an empty list raises IndexError, which the method
\* catches to return None.
MaxNotificationIdOfMutant(rows) ==
    IF rows = {} THEN 0 ELSE Max({r.id : r \in rows})
MaxNotificationIdOf(rows) ==
    LET records == Slice(OrderBy(rows, [r \in rows |-> r.id], TRUE), 1)
    IN  IF records = <<>> THEN None ELSE records[1].id

MaxNotificationId(t) ==
    /\ ReadCall(t, "max_notification_id",
                LAMBDA s : [NoResult EXCEPT !.value =
                               MaxNotificationIdOf(EventsView(s))])
    /\ UNCHANGED seen

\* max_tracking_id(application_name)
MaxTrackingId(t, application_name) ==
    /\ ReadCall(t, "max_tracking_id",
                LAMBDA s : [NoResult EXCEPT !.value =
                               MaxTrackingIdOf(TrackingView(s), application_name)])
    /\ UNCHANGED seen
\* The users of the application recorder: callers' blocks, insert_events
\* without a tracking object and the reads.  The calls of the process
\* recorder are those of ProcessNext.
Next ==
    \E t \in Threads :
        \/ \E commit \in BOOLEAN : EnterTransaction(t, commit)
        \/ \E exc \in {"", "Exception"} : ExitTransaction(t, exc, "")
        \/ inserts < MaxInserts /\ InsertEvents(t, FALSE)
        \/ \E b \in Batches : InsertStoredEvents(t, b)
        \/ Return(t, "")
        \/ \E o \in Originators : SelectEvents(t, o, None, None, FALSE, None)
        \/ \E start \in 1..2 :
              SelectNotifications(t, start, MaxInserts * MaxBatch, None,
                                  <<>>, TRUE)
        \/ MaxNotificationId(t)
Spec == Init /\ [][Next]_vars

\* The same program on a backend that fails: the commit that ends a
\* caller's block or an insert_events may end with any of the backend's
\* failures, a rollback with an operational error.  The caller's code in a
\* block raises its own exception or lets the operational error of a
\* statement pass (the errors of the recorder's own statements reach the
\* block through raised).  Every thread goes on running, so a block or a
\* call that has begun ends.  At most MaxFaultCalls blocks and calls begin.
BlockErrors(d) ==
    {"", "Exception"} \cup (PossibleFaults(d, TRUE) \ {Sqlite3Error})

FaultNext ==
    \E t \in Threads :
        \/ calls < MaxFaultCalls /\ \E commit \in BOOLEAN : EnterTransaction(t, commit)
        \/ \E exc \in BlockErrors(dialect),
              fault \in Faults(dialect) :
              ExitTransaction(t, exc, fault)
        \/ calls < MaxFaultCalls /\ inserts < MaxInserts /\ InsertEvents(t, FALSE)
        \/ \E b \in Batches : InsertStoredEvents(t, b)
        \/ \E fault \in Faults(dialect) :
              Return(t, fault)
        \/ calls < MaxFaultCalls /\ \E o \in Originators : SelectEvents(t, o, None, None, FALSE, None)
        \/ calls < MaxFaultCalls /\ \E start \in 1..2 :
              SelectNotifications(t, start, MaxInserts * MaxBatch, None,
                                  <<>>, TRUE)

Ends(t) ==
    \/ \E exc \in BlockErrors(dialect),
          fault \in Faults(dialect) :
          ExitTransaction(t, exc, fault)
    \/ \E b \in Batches : InsertStoredEvents(t, b)
    \/ \E fault \in Faults(dialect) : Return(t, fault)

FaultSpec ==
    Init /\ [][FaultNext]_vars /\ \A t \in Threads : WF_vars(Ends(t))

\* Callers' blocks alone on the failing backend.  A thread that has entered
\* a with-block runs on until the block ends, whichever way: weak fairness
\* of the end of each thread's block.
LockEnds(t) ==
    \E exc \in BlockErrors(dialect), fault \in Faults(dialect) :
        ExitTransaction(t, exc, fault)

LockNext ==
    \E t \in Threads :
        \/ \E commit \in BOOLEAN : EnterTransaction(t, commit)
        \/ LockEnds(t)

LockSpec ==
    Init /\ [][LockNext]_vars /\ \A t \in Threads : WF_vars(LockEnds(t))

\* The queries as functions of the table: the table is any one of up to
\* MaxRows records, of two originators, with gaps in the IDs, or the table
\* of the notifications 1..10, and one query is made of it.
NoEvent ==
    [originator_id |-> "", originator_version |-> 0, topic |-> "",
     state |-> Bytes(0)]
QueryOriginators == Originators \cup {"b"}
QueryEvents ==
    {[originator_id |-> o, originator_version |-> v, topic |-> k,
      state |-> Bytes(IF k = "Created" THEN 1 ELSE 2)] :
        o \in Originators, v \in 1..MaxQueryVersion, k \in Topics}
    \cup {[originator_id |-> "b", originator_version |-> 1,
           topic |-> "Created", state |-> Bytes(1)]}
Table(c) ==
    {EventRow(i, c[i]) : i \in {j \in DOMAIN c : c[j] # NoEvent}}
Tables ==
    {Table(c) : c \in
        {d \in [1..MaxRows -> QueryEvents \cup {NoEvent}] :
            \A i, j \in 1..MaxRows :
                i # j /\ d[i] # NoEvent => ~UniqueViolation(d[i], {d[j]})}}
TenNotifications ==
    {EventRow(i, [originator_id |-> "a", originator_version |-> i,
                  topic |-> "Created", state |-> Bytes(i)]) : i \in 1..10}

QueryInit ==
    /\ dialect \in Dialects
    /\ events \in Tables \cup {TenNotifications}
    /\ sequence = IF UsesSequence(dialect) /\ events # {}
                  THEN Max({r.id : r \in events}) ELSE 0
    /\ semaphore = 1
    /\ tried_wal = FALSE
    /\ is_sqlite_wal_mode = FALSE
    /\ table_lock = 0
    /\ tracking = {}
    /\ transactions = [t \in Threads |-> NoTransaction]
    /\ session = [t \in Threads |-> NewSession]
    /\ call = [t \in Threads |-> Idle]
    /\ raised = [t \in Threads |-> ""]
    /\ last = NoResult
    /\ seen = 0
    /\ calls = 0
    /\ inserts = 0
    /\ datastore = NewDatastore(FALSE, FALSE, UrlOf(dialect))
    /\ record_classes = RecorderClasses
    /\ subscription = NoSubscription

QueryNext ==
    \E t \in Threads :
        \/ /\ calls < MaxQueries
           /\ \E o \in QueryOriginators, gt \in {None, 1}, lte \in {None, 2},
                 desc \in BOOLEAN, limit \in {None} \cup 0..2 :
                 SelectEvents(t, o, gt, lte, desc, limit)
        \/ /\ calls < MaxQueries
           /\ \E start \in {None, 2, 5}, limit \in 1..2, stop \in {None, 2},
                 topics \in {<<>>, <<"Changed">>},
                 inclusive_of_start \in BOOLEAN :
                 SelectNotifications(t, start, limit, stop, topics,
                                     inclusive_of_start)
        \/ calls < MaxQueries /\ MaxNotificationId(t)

QuerySpec == QueryInit /\ [][QueryNext]_vars

\* The end of a caller's block step by step.  ReleaseLock is __exit__ up
\* to "self.lock.release()", the first statement of the finally clause:
\* the commit or rollback is done and the lock is free, the session is not
\* closed yet and the ContextVar still holds the transaction (with
\* nested_level 0).  CloseSession is the rest of the finally clause.
ReleaseLock(t, exc) ==
    /\ call[t].op = "idle" /\ raised[t] = ""
    /\ transactions[t].active
    /\ Outermost(transactions[t].nested_level - 1)
    /\ LET txn == transactions[t]
           out == ExitOutcome(txn, session[t], sequence, exc, "")
       IN  /\ events' = out.events
           /\ tracking' = out.tracking
           /\ sequence' = out.sequence
           /\ semaphore' = IF Released(txn, out.exc) THEN semaphore + 1
                          ELSE semaphore
           /\ table_lock' = IF table_lock = t THEN 0 ELSE table_lock
           /\ transactions' = [transactions EXCEPT ![t].nested_level = 0]
           /\ session' = [session EXCEPT ![t] = NewSession]
           /\ last' = [NoResult EXCEPT !.thread = t, !.op = "transaction",
                                   !.exc = out.exc, !.block_exc = exc]
    /\ UNCHANGED setup
    /\ UNCHANGED <<dialect, tried_wal, is_sqlite_wal_mode, call, raised, seen,
                   calls, inserts>>

CloseSession(t) ==
    /\ transactions[t].active /\ transactions[t].nested_level = 0
    /\ transactions' = [transactions EXCEPT ![t] = NoTransaction]
    /\ UNCHANGED setup
    /\ UNCHANGED <<dialect, semaphore, tried_wal, is_sqlite_wal_mode,
                   table_lock, sequence, events, tracking, session, call,
                   raised, last, seen, calls, inserts>>

CloseNext ==
    \E t \in Threads :
        \/ \E commit \in BOOLEAN : EnterTransaction(t, commit)
        \/ \E exc \in {"", "Exception"} : ReleaseLock(t, exc)
        \/ CloseSession(t)

CloseSpec == Init /\ [][CloseNext]_vars

\* A transaction request that fails after the lock has been acquired:
\* "session = self.session_maker()" raises, before the Transaction is made
\* and set in the ContextVar; or transaction() returns and the
\* session.begin() of __enter__ raises, before nested_level is counted up.
\* No handler surrounds either statement, and the with statement does not
\* call __exit__ when __enter__ raises.
FailurePoints == {"session_maker", "begin"}

RequestFails(t, commit, at) ==
    /\ CanStart(t)
    /\ ~transactions[t].active
    /\ ~datastore.scoped_session
    /\ CanAcquire(commit)
    /\ InitWal
    /\ semaphore' = IF AcquiresLock(commit) THEN semaphore - 1 ELSE semaphore
    /\ transactions' = [transactions EXCEPT ![t] =
           IF at = "session_maker" THEN NoTransaction
           ELSE [NoTransaction EXCEPT !.active = TRUE, !.commit = commit,
                                      !.lock = AcquiresLock(commit),
                                      !.owner = "self"]]
    /\ calls' = calls + 1
    /\ last' = [NoResult EXCEPT !.thread = t, !.op = "transaction",
                                !.exc = "Exception", !.fault = at]
    /\ UNCHANGED setup
    /\ UNCHANGED <<dialect, table_lock, sequence, events, tracking, session,
                   call, raised, seen, inserts>>

\* Transaction.__exit__ of the outermost block when "self.session.close()"
\* in the finally clause raises: the try block has committed or rolled
\* back, the lock is released, and the exception of close leaves the
\* finally clause before "transactions.reset(self.token)": the ContextVar
\* keeps the transaction, with nested_level 0.
ExitCloseFails(t, exc) ==
    /\ call[t].op = "idle" /\ raised[t] = ""
    /\ transactions[t].active
    /\ Outermost(transactions[t].nested_level - 1)
    /\ OwnsSession(transactions[t])
    /\ LET txn == transactions[t]
           out == ExitOutcome(txn, session[t], sequence, exc, "")
       IN  /\ events' = out.events
           /\ tracking' = out.tracking
           /\ sequence' = out.sequence
           /\ semaphore' = IF Released(txn, out.exc) THEN semaphore + 1
                          ELSE semaphore
           /\ table_lock' = IF table_lock = t THEN 0 ELSE table_lock
           /\ transactions' = [transactions EXCEPT ![t].nested_level = 0]
           /\ session' = [session EXCEPT ![t] = NewSession]
           /\ last' = [NoResult EXCEPT !.thread = t, !.op = "transaction",
                                   !.exc = "sqlalchemy.exc.OperationalError",
                                   !.block_exc = exc, !.fault = "close"]
    /\ UNCHANGED setup
    /\ UNCHANGED <<dialect, tried_wal, is_sqlite_wal_mode, call, raised, seen,
                   calls, inserts>>

\* "with datastore.transaction(commit):" in a call context whose ContextVar
\* holds a transaction that is in no with-block: the request is answered
\* with that transaction (or refused), no lock is acquired, and __enter__
\* begins the session's transaction again.
ReuseTransaction(t, commit) ==
    /\ CanStart(t)
    /\ transactions[t].active /\ transactions[t].nested_level = 0
    /\ calls' = calls + 1
    /\ IF RequestRefused(t, commit)
       THEN /\ last' = [NoResult EXCEPT !.thread = t, !.op = "transaction",
                                        !.exc = "ProgrammingError"]
            /\ UNCHANGED transactions
       ELSE /\ last' = [NoResult EXCEPT !.thread = t, !.op = "transaction",
                                        !.result = "reused"]
            /\ transactions' = [transactions EXCEPT ![t] = Enter(@)]
    /\ UNCHANGED setup
    /\ UNCHANGED <<dialect, semaphore, tried_wal, is_sqlite_wal_mode,
                   table_lock, sequence, events, tracking, session, call,
                   raised, seen, inserts>>

\* Callers' blocks whose request may fail after the lock acquisition.
LeakNext ==
    \E t \in Threads :
        \/ \E commit \in BOOLEAN : EnterTransaction(t, commit)
        \/ \E commit \in BOOLEAN, at \in FailurePoints :
              RequestFails(t, commit, at)
        \/ \E commit \in BOOLEAN : ReuseTransaction(t, commit)
        \/ \E exc \in {"", "Exception"} : ExitTransaction(t, exc, "")

LeakSpec == Init /\ [][LeakNext]_vars

\* Callers' blocks whose exit may fail in the close of the session.
ReentryNext ==
    \E t \in Threads :
        \/ \E commit \in BOOLEAN : EnterTransaction(t, commit)
        \/ \E commit \in BOOLEAN : ReuseTransaction(t, commit)
        \/ \E exc \in {"", "Exception"} : ExitTransaction(t, exc, "")
        \/ \E exc \in {"", "Exception"} : ExitCloseFails(t, exc)

ReentrySpec == Init /\ [][ReentryNext]_vars

\* "with other.transaction(commit):" where other is a second
\* SQLAlchemyDatastore instance, on a database of its own without a lock:
\* transaction() reads the ContextVar of the module, which all instances
\* share; when it holds a transaction the request is answered with that
\* one, or with ProgrammingError; otherwise the instance makes its own.
\* result: the owner of the transaction the request yields.
OtherTransaction(t, commit) ==
    /\ CanStart(t)
    /\ calls' = calls + 1
    /\ IF transactions[t].active /\ ~transactions[t].is_scoped_session
       THEN IF RequestRefused(t, commit)
            THEN /\ last' = [NoResult EXCEPT !.thread = t, !.op = "transaction",
                                             !.input = <<"other">>,
                                             !.exc = "ProgrammingError"]
                 /\ UNCHANGED transactions
            ELSE /\ last' = [NoResult EXCEPT !.thread = t, !.op = "transaction",
                                             !.input = <<"other">>,
                                             !.result = transactions[t].owner]
                 /\ transactions' = [transactions EXCEPT ![t] = Enter(@)]
       ELSE /\ last' = [NoResult EXCEPT !.thread = t, !.op = "transaction",
                                        !.input = <<"other">>,
                                        !.result = "other"]
            /\ transactions' = [transactions EXCEPT ![t] =
                   Enter([NoTransaction EXCEPT !.active = TRUE,
                                               !.commit = commit,
                                               !.owner = "other"])]
    /\ UNCHANGED setup
    /\ UNCHANGED <<dialect, semaphore, tried_wal, is_sqlite_wal_mode,
                   table_lock, sequence, events, tracking, session, call,
                   raised, seen, inserts>>

\* Callers' blocks and inserts on the recorders' datastore, and blocks on
\* the second datastore, in the same threads.
TwoDatastoresNext ==
    \E t \in Threads :
        \/ \E commit \in BOOLEAN : EnterTransaction(t, commit)
        \/ \E commit \in BOOLEAN : OtherTransaction(t, commit)
        \/ \E exc \in {"", "Exception"} : ExitTransaction(t, exc, "")
        \/ inserts < MaxInserts /\ InsertEvents(t, FALSE)
        \/ \E b \in Batches : InsertStoredEvents(t, b)
        \/ Return(t, "")

TwoDatastoresSpec == Init /\ [][TwoDatastoresNext]_vars

\* The first transaction request on a file SQLite database when the WAL
\* attempt of init_sqlite_wal_mode raises (engine.connect() or the PRAGMA
\* fails with an operational error: the database is locked, disk I/O
\* error): _tried_init_sqlite_wal_mode is set already, nothing catches the
\* exception, so it leaves transaction() before a lock is acquired or a
\* session is made.
WalAttemptFails(t, commit) ==
    /\ CanStart(t)
    /\ ~transactions[t].active
    /\ ~tried_wal /\ dialect = "sqlite_file" /\ ~is_sqlite_wal_mode
    /\ tried_wal' = TRUE
    /\ calls' = calls + 1
    /\ last' = [NoResult EXCEPT !.thread = t, !.op = "transaction",
                                !.exc = "sqlalchemy.exc.OperationalError"]
    /\ UNCHANGED setup
    /\ UNCHANGED <<dialect, semaphore, is_sqlite_wal_mode, table_lock,
                   sequence, events, tracking, transactions, session, call,
                   raised, seen, inserts>>

\* Callers' blocks with every outcome of the WAL attempt.
WalNext ==
    \E t \in Threads :
        \/ \E commit \in BOOLEAN : EnterTransaction(t, commit)
        \/ \E commit \in BOOLEAN : WalAttemptFails(t, commit)
        \/ \E exc \in {"", "Exception"} : ExitTransaction(t, exc, "")

WalSpec == Init /\ [][WalNext]_vars

\* The workers of a process application: they call only the process
\* recorder, each call a tracked insert_events, an insert_tracking or a
\* max_tracking_id in a transaction of its own.
ProcessNext ==
    \E t \in Threads :
        \/ inserts < MaxProcessInserts /\ InsertEvents(t, TRUE)
        \/ inserts < MaxProcessInserts /\ InsertTracking(t)
        \/ \E k \in Tracking : HasTrackingId(t, k)
        \/ InsertTrackingRecord(t)
        \/ \E b \in Batches : InsertStoredEvents(t, b)
        \/ Return(t, "")
        \/ \E a \in Applications : MaxTrackingId(t, a)

ProcessSpec == Init /\ [][ProcessNext]_vars

\* The same workers on the backend with the access lock.  A call that has
\* begun goes on whenever its next statement can run: weak fairness of the
\* steps of each thread's call.
AccessLockInit == Init /\ HasAccessLock(dialect)

CallSteps(t) ==
    \/ \E k \in Tracking : HasTrackingId(t, k)
    \/ InsertTrackingRecord(t)
    \/ \E b \in Batches : InsertStoredEvents(t, b)
    \/ Return(t, "")

TrackingSpec ==
    /\ AccessLockInit
    /\ [][ProcessNext]_vars
    /\ \A t \in Threads : WF_vars(CallSteps(t))

\* ------------------------------------------- constructing the datastore
\* SQLAlchemyDatastore(session=..., session_maker=..., url=...): the new
\* object takes the place of the one the model holds.  A URL names the
\* database of the model.
Construct(with_session, with_session_maker, url) ==
    /\ url # NoUrl => DialectOf(url) = dialect
    /\ datastore' = NewDatastore(with_session, with_session_maker, url)
    /\ last' = [NoResult EXCEPT
                  !.op = "SQLAlchemyDatastore",
                  !.input = <<with_session, with_session_maker, url>>,
                  !.exc = NewDatastoreRaises(with_session,
                                             with_session_maker, url)]
    /\ UNCHANGED <<record_classes, subscription>>
    /\ UNCHANGED <<dialect, semaphore, tried_wal, is_sqlite_wal_mode,
                   table_lock, sequence, events, tracking, transactions,
                   session, call, raised, seen, calls, inserts>>

\* datastore.set_scoped_session(session) on a constructed datastore.
CallSetScopedSession ==
    /\ datastore.constructed
    /\ datastore' = SetScopedSession(datastore)
    /\ last' = [NoResult EXCEPT !.op = "set_scoped_session"]
    /\ UNCHANGED <<record_classes, subscription>>
    /\ UNCHANGED <<dialect, semaphore, tried_wal, is_sqlite_wal_mode,
                   table_lock, sequence, events, tracking, transactions,
                   session, call, raised, seen, calls, inserts>>

\* SQLAlchemyDatastore.define_record_class(cls_name, table_name, base_cls)
CallDefineRecordClass(cls_name, table_name, base_cls) ==
    LET d == DefineRecordClass(record_classes, cls_name, table_name, base_cls)
    IN  /\ record_classes' = d.classes
        /\ last' = [NoResult EXCEPT
                      !.op = "define_record_class",
                      !.input = <<cls_name, table_name, base_cls>>,
                      !.exc = d.exc, !.result = d.result]
        /\ UNCHANGED <<datastore, subscription>>
        /\ UNCHANGED <<dialect, semaphore, tried_wal, is_sqlite_wal_mode,
                       table_lock, sequence, events, tracking, transactions,
                       session, call, raised, seen, calls, inserts>>

\* Before any datastore has been constructed and any record class defined.
DatastoreInit ==
    /\ dialect \in Dialects
    /\ semaphore = 1
    /\ tried_wal = FALSE
    /\ is_sqlite_wal_mode = FALSE
    /\ table_lock = 0
    /\ sequence = 0
    /\ events = {}
    /\ tracking = {}
    /\ transactions = [t \in Threads |-> NoTransaction]
    /\ session = [t \in Threads |-> NewSession]
    /\ call = [t \in Threads |-> Idle]
    /\ raised = [t \in Threads |-> ""]
    /\ last = NoResult
    /\ seen = 0
    /\ calls = 0
    /\ inserts = 0
    /\ datastore = NoDatastore
    /\ record_classes = NoRecordClasses
    /\ subscription = NoSubscription

DatastoreNext ==
    \/ \E with_session, with_session_maker \in BOOLEAN,
          url \in Urls \cup {NoUrl} :
          Construct(with_session, with_session_maker, url)
    \/ CallSetScopedSession
    \/ \E cls_name \in ClassNames, table_name \in TableNames,
          base_cls \in BaseClasses :
          CallDefineRecordClass(cls_name, table_name, base_cls)

DatastoreSpec == DatastoreInit /\ [][DatastoreNext]_vars

\* ------------------------------------------------------- scoped sessions
\* The owner of the scoped session, between recorder calls: session.commit()
\* makes what the session has flushed durable, session.remove() closes the
\* session and rolls back what was not committed.  A session whose flush
\* failed is not committed.
SessionCommit(t) ==
    /\ datastore.scoped_session
    /\ call[t].op = "idle" /\ raised[t] = ""
    /\ events' = events \cup session[t].ins_events
    /\ tracking' = TrackingView(session[t])
    /\ table_lock' = IF table_lock = t THEN 0 ELSE table_lock
    /\ session' = [session EXCEPT ![t] = NewSession]
    /\ last' = [NoResult EXCEPT !.thread = t, !.op = "session.commit",
                                !.rows = session[t].ins_events,
                                !.notified = session[t].notify]
    /\ subscription' = Signalled(subscription, last'.notified)
    /\ UNCHANGED <<datastore, record_classes>>
    /\ UNCHANGED <<dialect, semaphore, tried_wal, is_sqlite_wal_mode, sequence,
                   transactions, call, raised, seen, calls, inserts>>

SessionRemove(t) ==
    /\ datastore.scoped_session
    /\ call[t].op = "idle"
    /\ table_lock' = IF table_lock = t THEN 0 ELSE table_lock
    /\ session' = [session EXCEPT ![t] = NewSession]
    /\ raised' = [raised EXCEPT ![t] = ""]
    /\ last' = [NoResult EXCEPT !.thread = t, !.op = "session.remove",
                                !.rows = session[t].ins_events]
    /\ UNCHANGED setup
    /\ UNCHANGED <<dialect, semaphore, tried_wal, is_sqlite_wal_mode, sequence,
                   events, tracking, transactions, call, seen, calls, inserts>>

\* A datastore made with session=<scoped session>; each thread has the
\* session the scoped_session registry keeps for it.
ScopedInit ==
    /\ dialect \in Dialects
    /\ semaphore = 1
    /\ tried_wal = FALSE
    /\ is_sqlite_wal_mode = FALSE
    /\ table_lock = 0
    /\ sequence = 0
    /\ events = {}
    /\ tracking = {}
    /\ transactions = [t \in Threads |-> NoTransaction]
    /\ session = [t \in Threads |-> NewSession]
    /\ call = [t \in Threads |-> Idle]
    /\ raised = [t \in Threads |-> ""]
    /\ last = NoResult
    /\ seen = 0
    /\ calls = 0
    /\ inserts = 0
    /\ datastore = NewDatastore(TRUE, FALSE, NoUrl)
    /\ record_classes = RecorderClasses
    /\ subscription = NoSubscription

\* Requests handled on scoped sessions: calls of the application recorder,
\* then the owner's commit or remove.
ScopedNext ==
    \E t \in Threads :
        \/ inserts < MaxInserts /\ InsertEvents(t, FALSE)
        \/ \E b \in Batches : InsertStoredEvents(t, b)
        \/ Return(t, "")
        \/ \E o \in Originators : SelectEvents(t, o, None, None, FALSE, None)
        \/ \E start \in 1..2 :
              SelectNotifications(t, start, MaxInserts * MaxBatch, None,
                                  <<>>, TRUE)
        \/ SessionCommit(t)
        \/ SessionRemove(t)

ScopedSpec == ScopedInit /\ [][ScopedNext]_vars

\* ---------------------------------------------------------- subscriptions
\* Drivers of the PostgreSQL dialect; __get_notification_handler has a
\* handler for the first two.
Drivers == {"psycopg", "psycopg2", "pg8000"}

\* Notifications of other processes that wait on the listener's connection
\* at a time.
MaxPending == 2
HasNotificationHandler(driver) == driver \in {"psycopg", "psycopg2"}

\* SQLAlchemyApplicationRecorder.subscribe: on PostgreSQL a
\* SQLAlchemySubscription, whose __init__ starts the listener thread; on
\* any other dialect NotImplementedError.
SupportsSubscribeMutant(d) == TRUE
SupportsSubscribe(d) == d = "postgresql"

Subscribe ==
    /\ ~subscription.exists
    /\ datastore.engine
    /\ IF SupportsSubscribe(dialect)
       THEN /\ \E driver \in Drivers :
                  subscription' = [NoSubscription EXCEPT
                                     !.exists = TRUE, !.driver = driver,
                                     !.thread = "started"]
            /\ last' = [NoResult EXCEPT !.op = "subscribe",
                                        !.result = "SQLAlchemySubscription"]
       ELSE /\ subscription' = subscription
            /\ last' = [NoResult EXCEPT !.op = "subscribe",
                                        !.exc = "NotImplementedError"]
    /\ UNCHANGED <<datastore, record_classes>>
    /\ UNCHANGED <<dialect, semaphore, tried_wal, is_sqlite_wal_mode,
                   table_lock, sequence, events, tracking, transactions,
                   session, call, raised, seen, calls, inserts>>

\* The rest of the state when only the subscription changes.
SubscriptionOnly ==
    /\ UNCHANGED <<datastore, record_classes>>
    /\ UNCHANGED <<dialect, semaphore, tried_wal, is_sqlite_wal_mode,
                   table_lock, sequence, events, tracking, transactions,
                   session, call, raised, last, seen, calls, inserts>>

\* Errors of the listener's connection as they leave the with block of
\* _listen, and the error of another thread of the subscription.
ConnectionErrors == {"OperationalError", "InterfaceError"}
OtherThreadError == "ProgrammingError"

\* datastore.get_connection(): a dedicated connection for the listener, or
\* the error of the attempt when the server cannot be reached.
GetConnection(reachable, e) ==
    IF reachable THEN [conn |-> "open", exc |-> ""]
    ELSE [conn |-> "none", exc |-> e]

\* Subscription.stop() as _listen uses it.
Stopped(sub) ==
    [sub EXCEPT !.has_been_stopped = TRUE, !.has_been_notified = TRUE]

\* "except BaseException as e: if self._thread_error is None:
\* self._thread_error = e; self.stop()", after which _listen returns.
CaptureMutant(sub, e) ==
    [Stopped(sub) EXCEPT !.thread_error = e, !.thread = "dead",
                         !.conn = IF sub.conn = "none" THEN "none"
                                  ELSE "closed"]
Capture(sub, e) ==
    [Stopped(sub) EXCEPT !.thread_error = IF @ = "" THEN e ELSE @,
                         !.thread = "dead",
                         !.conn = IF sub.conn = "none" THEN "none"
                                  ELSE "closed"]

\* _listen up to the loop: the handler lookup is outside the try block, so
\* an unsupported driver ends the thread with nothing captured; then the
\* connection is opened and LISTEN is executed.
ListenStart ==
    /\ subscription.thread = "started"
    /\ IF ~HasNotificationHandler(subscription.driver)
       THEN subscription' = [subscription EXCEPT !.thread = "dead"]
       ELSE \E reachable \in BOOLEAN, e \in ConnectionErrors :
               LET c == GetConnection(reachable, e)
               IN  subscription' =
                      IF c.exc # "" THEN Capture(subscription, c.exc)
                      ELSE [subscription EXCEPT !.thread = "loop",
                                                !.conn = c.conn]
    /\ SubscriptionOnly

\* "while not self._has_been_stopped and not self._thread_error"
LoopContinuesMutant(sub) == sub.thread_error = ""
LoopContinues(sub) == ~sub.has_been_stopped /\ sub.thread_error = ""

ListenTest ==
    /\ subscription.thread = "loop"
    /\ subscription' =
          IF LoopContinues(subscription)
          THEN [subscription EXCEPT !.thread = "select"]
          ELSE [subscription EXCEPT !.thread = "dead", !.conn = "closed"]
    /\ SubscriptionOnly

\* The body of the loop: select with its timeout, then the handler, which
\* takes one notification off the connection and sets the flag, or the
\* sleep.  On a connection the server has closed the handler raises.
ListenSelect ==
    /\ subscription.thread = "select"
    /\ IF subscription.conn = "broken"
       THEN \E e \in ConnectionErrors :
               subscription' = Capture(subscription, e)
       ELSE subscription' =
               IF subscription.pending > 0
               THEN [subscription EXCEPT !.thread = "loop", !.pending = @ - 1,
                                         !.has_been_notified = TRUE]
               ELSE [subscription EXCEPT !.thread = "loop"]
    /\ SubscriptionOnly

\* _listen, one step.
Listen == ListenStart \/ ListenTest \/ ListenSelect

\* The server closes the listener's connection.
ServerClosesConnection ==
    /\ subscription.conn = "open"
    /\ subscription' = [subscription EXCEPT !.conn = "broken"]
    /\ SubscriptionOnly

\* A recorder of another process commits events: its NOTIFY reaches the
\* listener's connection.
OtherProcessNotifies ==
    /\ subscription.pending < MaxPending
    /\ subscription.conn = "open"
    /\ subscription' = Signalled(subscription, TRUE)
    /\ SubscriptionOnly

\* The owner of the subscription stops it.
Stop ==
    /\ subscription.exists /\ ~subscription.has_been_stopped
    /\ subscription' = Stopped(subscription)
    /\ SubscriptionOnly

\* SQLAlchemySubscription.__exit__: the __exit__ of the base class stops
\* the subscription, then the owner joins the listener thread.
ExitSubscription ==
    /\ subscription.exists /\ subscription.exit = "no"
    /\ subscription' = [Stopped(subscription) EXCEPT !.exit = "join"]
    /\ SubscriptionOnly

\* "self._listen_thread.join()" returns when the thread has ended.
Join ==
    /\ subscription.exit = "join"
    /\ subscription.thread = "dead"
    /\ subscription' = [subscription EXCEPT !.exit = "done"]
    /\ SubscriptionOnly

\* Another thread of the subscription fails, records its error the same
\* way and stops the subscription.
OtherThreadFails ==
    /\ subscription.exists /\ ~subscription.has_been_stopped
    /\ subscription' =
          [Stopped(subscription) EXCEPT
              !.thread_error = IF @ = "" THEN OtherThreadError ELSE @]
    /\ SubscriptionOnly

\* The consumer's next(subscription), as run_forever calls it: it waits
\* until the subscription has been notified or stopped; on a stopped
\* subscription it raises the captured error, or StopIteration.
NextNotification ==
    /\ subscription.exists
    /\ subscription.has_been_notified
    /\ last.op # "next" \/ last.exc = ""
    /\ IF subscription.has_been_stopped
       THEN /\ last' = [NoResult EXCEPT
                          !.op = "next",
                          !.exc = IF subscription.thread_error # ""
                                  THEN subscription.thread_error
                                  ELSE "StopIteration"]
            /\ subscription' = subscription
       ELSE /\ last' = [NoResult EXCEPT !.op = "next"]
            /\ subscription' =
                  [subscription EXCEPT !.has_been_notified = FALSE]
    /\ UNCHANGED <<datastore, record_classes>>
    /\ UNCHANGED <<dialect, semaphore, tried_wal, is_sqlite_wal_mode,
                   table_lock, sequence, events, tracking, transactions,
                   session, call, raised, seen, calls, inserts>>

SubscriptionNext ==
    \/ Subscribe
    \/ ListenStart
    \/ ListenTest
    \/ ListenSelect
    \/ ServerClosesConnection
    \/ OtherProcessNotifies
    \/ Stop
    \/ ExitSubscription
    \/ Join
    \/ OtherThreadFails
    \/ NextNotification

\* The listener is a thread of its own, the consumer keeps calling next
\* and the owner's join returns once the thread has ended: each takes its
\* step when it can.
SubscriptionSpec ==
    /\ Init
    /\ [][SubscriptionNext]_vars
    /\ WF_vars(Listen)
    /\ WF_vars(NextNotification)
    /\ WF_vars(Join)

\* A recorder that inserts events, in transactions of its own and in the
\* caller's block (which may end with an exception of the caller's code),
\* while a subscription listens and its consumer takes the signals.  The
\* listener is a thread of its own: it takes its step when it can.
Writer == CHOOSE t \in Threads : TRUE

NotifyNext ==
    \/ Subscribe
    \/ ListenStart
    \/ ListenTest
    \/ ListenSelect
    \/ ServerClosesConnection
    \/ Stop
    \/ NextNotification
    \/ EnterTransaction(Writer, TRUE)
    \/ \E exc \in {"", "Exception"} : ExitTransaction(Writer, exc, "")
    \/ inserts < MaxInserts /\ InsertEvents(Writer, FALSE)
    \/ \E b \in Batches : InsertStoredEvents(Writer, b)
    \/ Return(Writer, "")

NotifySpec == Init /\ [][NotifyNext]_vars /\ WF_vars(Listen)

\* ===================================================================
\* Properties
\* ===================================================================

\* The step finishes a multi-step recorder call of thread t.
Returns(t) == call[t].op # "idle" /\ call'[t].op = "idle"

\* The step is a reading call of thread t (they are atomic).
ReadOps ==
    {"select_events", "select_notifications", "max_notification_id",
     "max_tracking_id"}
Reads(t) ==
    /\ calls' = calls + 1 /\ inserts' = inserts
    /\ \A u \in Threads \ {t} : transactions'[u] = transactions[u]
    /\ call' = call
    /\ last'.thread = t /\ last'.op \in ReadOps

SameKey(e, r) ==
    /\ e.originator_id = r.originator_id
    /\ e.originator_version = r.originator_version

\* The events of a batch that are among the given rows.
Duplicates(stored_events, rows) ==
    {i \in 1..Len(stored_events) : \E r \in rows : SameKey(stored_events[i], r)}

\* The policies under which the code orders writers: the access lock, the
\* write lock, or PostgreSQL's LOCK TABLE.
OrdersWriters == dialect \in {"sqlite_memory", "sqlite_file", "postgresql"}

\* C1: under the access-lock, write-lock or PostgreSQL table-lock policy,
\* once a select_notifications has returned an event with ID m (seen >= m),
\* no event with an ID smaller than (or equal to) m is committed afterwards:
\* every row a step commits has an ID greater than every ID returned so far.
C1_VisibleInIncreasingOrder ==
    [][OrdersWriters => \A r \in events' \ events : r.id > seen]_vars

\* A reader has returned ID 1 while a second writer had its transaction
\* open (lock-free PostgreSQL), or was waiting for the lock, and that
\* writer's event has then been committed with a greater ID.
C1_Witness ==
    /\ OrdersWriters
    /\ seen >= 1
    /\ \E r \in events : r.id > seen
    /\ last.op = "insert_events" /\ last.exc = ""
    /\ \E t \in Threads : t # last.thread /\ call[t].op = "idle"

\* The rows a step commits.
Added == events' \ events

\* Every event of the batch is among the rows, once each.
HoldsBatch(stored_events, rows) ==
    /\ Cardinality(rows) = Len(stored_events)
    /\ \A i \in 1..Len(stored_events) : \E r \in rows : SameKey(stored_events[i], r)

\* C2: when an insert_events call in a transaction of its own (no tracking)
\* carries an event whose (originator_id, originator_version) an earlier
\* transaction has committed, the call fails with IntegrityError, and the
\* committed rows, the earlier event among them, stay committed and are
\* still what select_events returns.
C2_DuplicateVersionFails ==
    [][\A t \in Threads :
          (/\ Returns(t) /\ call[t].op = "insert_events" /\ call[t].own
           /\ last'.tracking = NoTracking
           /\ Duplicates(last'.stored_events, events) # {})
          => /\ last'.exc = "IntegrityError"
             /\ events \subseteq events'
             /\ \A o \in Originators :
                   {r \in events : r.originator_id = o}
                       \subseteq SelectEventsResult(NewSession, o, None, None,
                                             FALSE, None).rows']_vars

\* A second call with an already committed version has failed with
\* IntegrityError and the first call's row is still committed.
C2_Witness ==
    /\ last.op = "insert_events" /\ ~last.nested
    /\ last.exc = "IntegrityError"
    /\ last.tracking = NoTracking
    /\ Duplicates(last.stored_events, events) # {}

\* C3: insert_events is atomic per call.  When a call in a transaction of
\* its own ends, the rows it has committed are the whole batch or nothing,
\* and nothing when an event of the batch duplicates a committed
\* (originator_id, originator_version).  When a call nested in the caller's
\* block returns, the whole batch is visible to a select_events of that
\* block and nothing is committed yet.
C3_InsertAtomic ==
    [][\A t \in Threads :
          (Returns(t) /\ call[t].op = "insert_events")
          => IF call[t].own
             THEN /\ Added = {} \/ HoldsBatch(last'.stored_events, Added)
                  /\ Duplicates(last'.stored_events, events) # {} => Added = {}
             ELSE /\ Added = {}
                  /\ last'.exc = "" =>
                        \A i \in 1..Len(last'.stored_events) :
                           \E r \in session'[t].ins_events :
                              SameKey(last'.stored_events[i], r)]_vars

\* A batch of two events whose second one duplicates a committed version
\* has been refused and its first event is not among the committed rows.
C3_Witness ==
    /\ last.op = "insert_events" /\ ~last.nested
    /\ last.exc = "IntegrityError"
    /\ Len(last.stored_events) = 2
    /\ Duplicates(last.stored_events, events) = {2}

\* C4: a process recorder's insert_events with events and a tracking object,
\* in a transaction of its own, commits the events and the tracking position
\* together or not at all: a call that returns has committed the whole
\* batch and the position; a call that raises (the position was rejected as
\* covered, or the event insert failed) has committed no event and has left
\* the tracking table, and so max_tracking_id of the application, unchanged.
C4_TrackingWithEvents ==
    [][\A t \in Threads :
          (/\ Returns(t) /\ call[t].op = "insert_events" /\ call[t].own
           /\ last'.tracking # NoTracking
           /\ last'.stored_events # << >>)
          => IF last'.exc = ""
             THEN /\ HoldsBatch(last'.stored_events, Added)
                  /\ last'.tracking \in tracking'
             ELSE /\ Added = {}
                  /\ tracking' = tracking
                  /\ MaxTrackingIdOf(tracking', last'.tracking.application_name)
                       = MaxTrackingIdOf(tracking, last'.tracking.application_name)]_vars

\* C5: when insert_tracking, in a transaction of its own, finds at its
\* has_tracking_id check that the notification_id is less than or equal to
\* the current max_tracking_id of the application, it raises IntegrityError
\* and leaves the tracking table unchanged: max_tracking_id still returns
\* the value recorded before.
C5_CoveredTrackingRejected ==
    [][\A t \in Threads :
          (/\ call[t].op = "insert_tracking" /\ call[t].own
           /\ call[t].phase = "tracking"
           /\ call'[t] # call[t])
          => LET trk == IF Returns(t) THEN last'.tracking ELSE call'[t].tracking
                 max_id == MaxTrackingIdOf(tracking, trk.application_name)
             IN  (max_id # None /\ trk.notification_id <= max_id)
                 => /\ Returns(t)
                    /\ last'.exc = "IntegrityError"
                    /\ tracking' = tracking
                    /\ MaxTrackingIdOf(tracking', trk.application_name) = max_id]_vars

\* An insert_tracking with the position already recorded has been refused.
C5_Witness ==
    /\ last.op = "insert_tracking" /\ ~last.nested
    /\ last.exc = "IntegrityError"
    /\ last.tracking \in tracking

\* The step is the successful end, in a transaction of its own, of an
\* insert_tracking or tracked insert_events call for the application.
RecordsPosition(application_name) ==
    \E t \in Threads :
        /\ Returns(t) /\ call[t].own
        /\ last'.exc = ""
        /\ last'.tracking.application_name = application_name

\* The step is the commit of a caller's block in which such calls ran.
CommitsBlock ==
    \E t \in Threads :
        /\ call[t].op = "idle" /\ transactions[t].active
        /\ ~transactions'[t].active

\* C6: for every application_name the value max_tracking_id returns never
\* decreases, and it changes only through a successful insert_tracking or
\* tracked insert_events for that application_name (None counts as below
\* every position).
C6_MaxTrackingIdMonotonic ==
    [][\A a \in Applications :
          LET before == MaxTrackingIdOf(tracking, a)
              after == MaxTrackingIdOf(tracking', a)
          IN  /\ after >= before
              /\ after # before => RecordsPosition(a) \/ CommitsBlock]_vars

\* C7: the tracking table holds at most one row per application_name.
C7_OneRowPerApplication ==
    \A a \in Applications :
        Cardinality({r \in tracking : r.application_name = a}) <= 1

\* C8: when two workers call insert_events with events and the same
\* tracking object concurrently, at most one of the two transactions commits: a tracked
\* insert_events never returns successfully with a tracking object that
\* another worker's insert_events has committed while the call was running,
\* and it commits no event then.
C8_TrackingExactlyOnce ==
    [][\A t \in Threads :
          (/\ Returns(t) /\ call[t].op = "insert_events" /\ call[t].own
           /\ last'.tracking # NoTracking
           /\ last'.stored_events # << >>
           /\ last'.tracking \in call[t].overlap)
          => last'.exc # "" /\ Added = {}]_vars

\* A single-event insert_events call in a transaction of its own returns.
ReturnsOneId(t) ==
    /\ Returns(t) /\ call[t].op = "insert_events" /\ call[t].own
    /\ last'.exc = ""
    /\ Len(last'.ids) = 1

\* C9 as claimed: on every backend, when concurrent writers each append one
\* event in a transaction of their own, the ID returned to a writer is
\* distinct from and greater than the ID of every event committed before
\* it, and max_notification_id() is then the ID returned.
C9_IdsInCommitOrder ==
    [][\A t \in Threads :
          ReturnsOneId(t)
          => /\ \A r \in events : r.id < last'.ids[1]
             /\ MaxNotificationIdOf(events') = last'.ids[1]]_vars

\* C9 as amended: the IDs returned are pairwise distinct on every backend
\* and max_notification_id() is the greatest ID returned once the writers
\* have committed; the IDs increase in commit order under the access-lock,
\* write-lock and PostgreSQL table-lock policies.
C9_IdsInCommitOrderWhereLocked ==
    [][\A t \in Threads :
          ReturnsOneId(t)
          => /\ \A r \in events : r.id # last'.ids[1]
             /\ MaxNotificationIdOf(events')
                  = Max({last'.ids[1]} \cup {r.id : r \in events})
             /\ OrdersWriters =>
                  /\ \A r \in events : r.id < last'.ids[1]
                  /\ MaxNotificationIdOf(events') = last'.ids[1]]_vars

\* Two writers have each committed one event and the second has been given
\* the greater ID.
C9_Witness ==
    /\ OrdersWriters
    /\ last.op = "insert_events" /\ ~last.nested /\ last.exc = ""
    /\ Len(last.ids) = 1
    /\ \E r \in events : r.id < last.ids[1]
    /\ MaxNotificationIdOf(events) = last.ids[1]

\* The step is a recorder call, or a step of one, of thread t made while
\* the caller's block of t is open.
InBlock(t) ==
    /\ transactions[t].active
    /\ \/ Reads(t)
       \/ /\ call[t].op # "idle" /\ ~call[t].own
          /\ [call'[t] EXCEPT !.overlap = {}] # [call[t] EXCEPT !.overlap = {}]
       \/ call[t].op = "idle" /\ call'[t].op # "idle"
       \/ /\ call' = call /\ inserts' = inserts + 1
          /\ last'.thread = t /\ last'.exc = "ProgrammingError"

\* C10: while a transaction is open in a call context, every transaction
\* request of the recorders in that context works on that Transaction and
\* session: no second begin, no lock acquired or released, nothing
\* committed, nothing rolled back, the session's flushed event rows kept and
\* its flushed tracking rows kept or updated in place; a
\* select_events nested in a commit block returns the rows the block has
\* written and not committed.
C10_NestedReuse ==
    [][\A t \in Threads :
          InBlock(t)
          => /\ transactions'[t].active
             /\ transactions'[t].begun = transactions[t].begun
             /\ transactions'[t].commit = transactions[t].commit
             /\ transactions'[t].lock = transactions[t].lock
             /\ transactions'[t].nested_level >= 1
             /\ semaphore' = semaphore
             /\ events' = events /\ tracking' = tracking
             /\ table_lock = t => table_lock' = t
             /\ session[t].ins_events \subseteq session'[t].ins_events
             /\ \A r \in session[t].trk_add :
                   \E q \in session'[t].trk_add :
                       q.application_name = r.application_name
             /\ (Reads(t) /\ last'.op = "select_events" /\ last'.exc = "")
                   => session[t].ins_events \subseteq last'.rows]_vars

\* A select_events nested in a commit block has returned an event that the
\* block had inserted and not yet committed.
C10_Witness ==
    /\ last.op = "select_events" /\ last.nested /\ last.exc = ""
    /\ last.rows # {} /\ events = {}
    /\ transactions[last.thread].active /\ transactions[last.thread].commit
    /\ transactions[last.thread].nested_level = 1
    /\ session[last.thread].ins_events = last.rows

\* The step is the request of an insert_events or insert_tracking call of
\* thread t.
RequestsCommit(t) ==
    /\ inserts' = inserts + 1
    /\ call'[t] # call[t] \/ (call' = call /\ last'.thread = t)

\* C11: a request for a commit=True transaction made while the call context
\* holds a transaction started with commit=False raises ProgrammingError at
\* the request: the call does nothing else, and the outer transaction, its
\* nesting level, its session and the lock are as they were.
C11_RefusedAtRequest ==
    [][\A t \in Threads :
          (/\ RequestsCommit(t)
           /\ transactions[t].active /\ ~transactions[t].commit)
          => /\ call' = call
             /\ last'.thread = t /\ last'.exc = "ProgrammingError"
             /\ transactions' = transactions
             /\ session' = session
             /\ semaphore' = semaphore /\ table_lock' = table_lock
             /\ events' = events /\ tracking' = tracking]_vars

\* An insert has been refused with ProgrammingError inside a commit=False
\* block, which is still open at its first level.
C11_Witness ==
    /\ last.exc = "ProgrammingError" /\ last.nested
    /\ last.op \in {"insert_events", "insert_tracking"}
    /\ transactions[last.thread].active
    /\ ~transactions[last.thread].commit
    /\ transactions[last.thread].nested_level = 1

\* The threads whose call context holds a transaction.
Open == {t \in Threads : transactions[t].active}

EndsTransaction(t) == transactions[t].active /\ ~transactions'[t].active

\* C14: whatever way the outermost block ends (commit, rollback, an error
\* of the block, a failing commit or a failing rollback), the lock the
\* transaction holds is released, the session is closed and the ContextVar
\* is reset; so the lock, once taken, is free again for a waiting thread.
C14_LockReleasedAlways ==
    /\ [][\A t \in Threads :
             EndsTransaction(t)
             => /\ semaphore' = IF transactions[t].lock THEN semaphore + 1
                                ELSE semaphore
                /\ session'[t] = NewSession
                /\ transactions'[t] = NoTransaction]_vars
    /\ [](semaphore = 0 => <>(semaphore = 1))

\* A thread holds the access lock after another thread's block ended with
\* a failing commit or rollback that reached the caller as an exception.
C14_Witness ==
    /\ HasAccessLock(dialect)
    /\ last.op = "transaction" /\ last.fault # "" /\ last.exc # ""
    /\ \E t \in Threads \ {last.thread} :
          transactions[t].active /\ transactions[t].lock

\* The step ends thread t's transaction through an error of its block.
ErrorExit(t) ==
    EndsTransaction(t) /\ last'.thread = t /\ last'.block_exc # ""

\* The step is a select_events or select_notifications call of thread t.
Selects(t) ==
    /\ Reads(t)
    /\ transactions'[t].active = transactions[t].active
    /\ last'.op \in {"select_events", "select_notifications"}

\* C15: when the block of a transaction exits through an error, the
\* transaction is rolled back (none of its rows is committed, nothing of
\* the tables changes) and the error reaches the caller; a select_events or
\* select_notifications returns committed rows and rows of its own open
\* session only, so it never returns an event of a rolled-back block.
C15_RolledBackOnError ==
    [][\A t \in Threads :
          /\ ErrorExit(t)
             => /\ events' = events /\ tracking' = tracking
                /\ session[t].ins_events \cap events' = {}
                /\ session'[t] = NewSession
                /\ last'.exc # ""
          /\ Selects(t)
             => last'.rows \subseteq
                   events \cup (IF transactions[t].active
                                THEN session'[t].ins_events ELSE {})]_vars

\* A block that had inserted events ended through an error, and the
\* events are not in the table.
C15_Witness ==
    /\ last.op = "transaction" /\ last.block_exc # "" /\ last.exc # ""
    /\ last.rows # {}
    /\ last.rows \cap events = {}
    /\ ~transactions[last.thread].active

\* The exception types of the backend (SQLAlchemy and the DBAPI driver).
BackendNative ==
    SQLAlchemyErrors \cup {Sqlite3Error, "sqlalchemy.orm.exc.StaleDataError"}

\* The taxonomy error that matches a backend failure: the error of the
\* same name, PersistenceError (or its subclass DatabaseError) for any
\* other failure.
Matching(exc) ==
    CASE exc = "sqlalchemy.exc.InterfaceError" -> {"InterfaceError"}
      [] exc = "sqlalchemy.exc.DataError" -> {"DataError"}
      [] exc \in {"sqlalchemy.exc.OperationalError", SqliteOperationalError,
                  Sqlite3Error} -> {"OperationalError"}
      [] exc = "sqlalchemy.exc.IntegrityError" -> {"IntegrityError"}
      [] exc = "sqlalchemy.exc.InternalError" -> {"InternalError"}
      [] exc = "sqlalchemy.exc.ProgrammingError" -> {"ProgrammingError"}
      [] exc = "sqlalchemy.exc.NotSupportedError" -> {"NotSupportedError"}
      [] OTHER -> {"PersistenceError", "DatabaseError"}

\* The step is the outermost exit of thread t's block, recorded in last.
ExitStep(t) == EndsTransaction(t) /\ last'.thread = t

\* The exit of t's block rolled back, the rollback failed and __exit__
\* raised nothing for it, on the backend with the access lock.
SwallowedRollback(t) ==
    /\ HasAccessLock(dialect)
    /\ last'.block_exc # "" \/ ~transactions[t].commit
    /\ last'.fault # ""
    /\ last'.exc \in {"", last'.block_exc}

\* C16: a backend failure raised in the block or by the commit or the
\* rollback reaches the caller as the matching taxonomy error, and no
\* backend exception type reaches the caller, unless a rollback failure
\* is swallowed under the access lock.
C16_TaxonomyOnly ==
    [][\A t \in Threads :
          ExitStep(t) /\ ~SwallowedRollback(t)
          => LET failures == {last'.block_exc, last'.fault} \cap BackendNative
             IN  /\ last'.exc \notin BackendNative
                 /\ failures # {}
                    => \E f \in failures : last'.exc \in Matching(f)]_vars

\* The operational errors of the backend.
Operational ==
    {"sqlalchemy.exc.OperationalError", SqliteOperationalError, Sqlite3Error}

\* C17: an operational error of the commit or the rollback is raised as
\* OperationalError, unless it occurs in the rollback of a
\* commit=False transaction on the backend with the access lock; a failing
\* commit of a commit=True transaction never ends in a normal return.
C17_SwallowOnlyReadRollback ==
    [][\A t \in Threads :
          ExitStep(t)
          => /\ (/\ last'.fault \in Operational
                 /\ last'.exc # "OperationalError")
                => ~transactions[t].commit /\ HasAccessLock(dialect)
             /\ (/\ transactions[t].commit /\ last'.block_exc = ""
                 /\ last'.fault # "")
                => last'.exc # ""]_vars

\* The committed records a select_events with the arguments a is to find.
MatchingEvents(a) ==
    {r \in events :
        /\ r.originator_id = a.originator_id
        /\ a.gt # None => r.originator_version > a.gt
        /\ a.lte # None => r.originator_version <= a.lte}

\* C18: select_events returns, without an error, exactly the committed
\* events of the originator with gt < version <= lte, in ascending order
\* of version (descending when desc), cut to the first limit of that
\* order, each with the version, topic and state bytes as inserted; the
\* empty list when nothing matches.
C18_SelectEventsExact ==
    [][\A t \in Threads :
          Selects(t) /\ last'.op = "select_events" /\ ~transactions[t].active
          => LET a == last'.args
                 found == MatchingEvents(a)
                 list == last'.list
                 n == Cardinality(found)
                 Before(v, w) == IF a.desc THEN v > w ELSE v < w
             IN  /\ last'.exc = ""
                 /\ Len(list) = IF a.limit # None /\ a.limit < n
                                THEN a.limit ELSE n
                 /\ \A i \in 1..Len(list) :
                       \E r \in found :
                          list[i] = [originator_id |-> r.originator_id,
                                     originator_version |->
                                         r.originator_version,
                                     topic |-> r.topic, state |-> r.state]
                 /\ \A i, j \in 1..Len(list) :
                       i < j => Before(list[i].originator_version,
                                       list[j].originator_version)
                 /\ \A r \in found :
                       (\A i \in 1..Len(list) :
                           list[i].originator_version
                               # r.originator_version)
                       => \A i \in 1..Len(list) :
                             Before(list[i].originator_version,
                                    r.originator_version)]_vars

\* Of an originator's versions 1, 2 and 3 on PostgreSQL, the query with
\* gt = 1, descending, limit 1 has returned version 3.
C18_Witness ==
    /\ last.op = "select_events" /\ last.exc = ""
    /\ dialect = "postgresql"
    /\ last.args.gt = 1 /\ last.args.desc /\ last.args.limit = 1
    /\ Cardinality({r \in events :
                       r.originator_id = last.args.originator_id}) = 3
    /\ Len(last.list) = 1 /\ last.list[1].originator_version = 3
    /\ last.list[1].state.type = "bytes"

\* The committed records a select_notifications with the arguments a is
\* to choose from.
MatchingNotifications(a) ==
    {r \in events :
        /\ a.start # None
           => IF a.inclusive_of_start THEN r.id >= a.start
              ELSE r.id > a.start
        /\ a.stop # None => r.id <= a.stop
        /\ a.topics # <<>> => \E i \in 1..Len(a.topics) : r.topic = a.topics[i]}

\* C19: select_notifications returns, in ascending order of ID, the first
\* limit committed notifications with ID >= start (> start when
\* inclusive_of_start is false, any ID when start is None), ID <= stop when
\* stop is given and topic in topics when topics is not empty; from the
\* notifications 1..10, start = 5 and limit = 2 give 5 and 6.
C19_SelectNotificationsExact ==
    [][\A t \in Threads :
          (/\ Selects(t) /\ last'.op = "select_notifications"
           /\ ~transactions[t].active)
          => LET a == last'.args
                 found == MatchingNotifications(a)
                 list == last'.list
                 n == Cardinality(found)
             IN  /\ last'.exc = ""
                 /\ Len(list) = IF a.limit < n THEN a.limit ELSE n
                 /\ \A i \in 1..Len(list) :
                       \E r \in found :
                          list[i] = [id |-> r.id,
                                     originator_id |-> r.originator_id,
                                     originator_version |->
                                         r.originator_version,
                                     topic |-> r.topic, state |-> r.state]
                 /\ \A i, j \in 1..Len(list) : i < j => list[i].id < list[j].id
                 /\ \A r \in found :
                       (\A i \in 1..Len(list) : list[i].id # r.id)
                       => \A i \in 1..Len(list) : list[i].id < r.id
                 /\ (/\ {r.id : r \in events} = 1..10
                     /\ a.start = 5 /\ a.limit = 2 /\ a.stop = None
                     /\ a.topics = <<>> /\ a.inclusive_of_start)
                    => <<list[1].id, list[2].id>> = <<5, 6>>]_vars

\* From the notifications 1..10 the query with start = 5 and limit = 2 has
\* returned two notifications.
C19_Witness ==
    /\ last.op = "select_notifications" /\ last.exc = ""
    /\ {r.id : r \in events} = 1..10
    /\ last.args.start = 5 /\ last.args.limit = 2
    /\ last.args.stop = None /\ last.args.topics = <<>>
    /\ last.args.inclusive_of_start
    /\ Len(last.list) = 2

\* C20: max_notification_id returns None exactly when no event is stored
\* and the greatest notification ID otherwise; it raises nothing, on the
\* empty table as well.
C20_MaxNotificationId ==
    [][\A t \in Threads :
          (/\ Reads(t) /\ last'.op = "max_notification_id"
           /\ transactions'[t].active = transactions[t].active
           /\ ~transactions[t].active)
          => /\ last'.exc = ""
             /\ last'.value = None <=> events = {}
             /\ events # {}
                => /\ \E r \in events : r.id = last'.value
                   /\ \A r \in events : r.id <= last'.value]_vars

\* max_notification_id has returned None for the empty table.
C20_Witness ==
    /\ last.op = "max_notification_id" /\ last.exc = ""
    /\ events = {}
    /\ last.value = None

\* C21: insert_events returns one notification ID for each event of the
\* call, in the order of the events, and the i-th ID is the ID under which
\* select_notifications returns the i-th event once the call has returned
\* (after: what a session reads then).
C21_IdsMatchEvents ==
    [][\A t \in Threads :
          (/\ Returns(t) /\ last'.thread = t /\ last'.op = "insert_events"
           /\ last'.exc = "" /\ ~last'.nested)
          => /\ Len(last'.ids) = Len(last'.stored_events)
             /\ \A i \in 1..Len(last'.ids) :
                   LET e == last'.stored_events[i]
                       after == [NewSession EXCEPT !.ins_events = events']
                       found == SelectNotificationsResult(
                                    after, last'.ids[i], 1, None, <<>>, TRUE)
                   IN  found.list =
                          <<[id |-> last'.ids[i],
                             originator_id |-> e.originator_id,
                             originator_version |-> e.originator_version,
                             topic |-> e.topic, state |-> e.state]>>]_vars

\* C23: the event stream is append-only: no step removes or changes a
\* committed event, and no two committed events have the same ID.
C23_AppendOnly ==
    /\ [][events \subseteq events']_vars
    /\ [](\A r, q \in events : r.id = q.id => r = q)

\* Two events are committed under different IDs, the second after the
\* first, and a call has failed or a block was rolled back since.
C23_Witness ==
    /\ Cardinality(events) >= 2
    /\ last.exc # ""
    /\ \E r, q \in events : r.id # q.id

\* C22: insert_events with an empty sequence adds no row, uses no
\* notification ID, leaves what the queries return as it was and signals
\* no subscriber.
C22_EmptyInsertNoOp ==
    /\ [][\A t \in Threads :
          (/\ Returns(t) /\ last'.thread = t /\ last'.op = "insert_events"
           /\ last'.stored_events = <<>> /\ last'.tracking = NoTracking
           /\ last'.exc = "")
          => /\ events' = events /\ tracking' = tracking
             /\ sequence' = sequence
             /\ last'.ids = <<>>
             /\ MaxNotificationIdOf(events') = MaxNotificationIdOf(events)
             /\ ~last'.notified]_vars
    /\ [][\A t \in Threads :
             (/\ call[t].phase = "insert" /\ call'[t].phase = "exit"
              /\ call'[t].stored_events = <<>>)
             => /\ sequence' = sequence
                /\ session'[t].ins_events = session[t].ins_events]_vars

\* The session of thread t's transaction is open: made in
\* SQLAlchemyDatastore.transaction, closed in the finally clause of __exit__.
SessionOpen(t) == transactions[t].active

\* C30: under the access-lock and write-lock policies the lock is taken
\* before the session is opened and released after the session is closed:
\* a transaction that takes the lock begins only when no session of an
\* earlier transaction that took the lock is still open.
C30_NoSessionOpenAtBegin ==
    [][\A t \in Threads :
          (/\ ~transactions[t].active /\ transactions'[t].active
           /\ transactions'[t].lock)
          => \A u \in Threads \ {t} :
                SessionOpen(u) => ~transactions[u].lock]_vars

\* The step constructs a datastore from a URL alone.
BuiltFromUrl ==
    /\ last'.op = "SQLAlchemyDatastore"
    /\ ~last'.input[1] /\ ~last'.input[2] /\ last'.input[3] # NoUrl

\* C27: a datastore built from an in-memory SQLite URL has the access lock
\* and no write lock, one built from a file SQLite URL the write lock and
\* no access lock, one built from any other URL neither lock; after
\* set_scoped_session it has neither; and no datastore ever has both.
C27_LockOfBackend ==
    /\ [][BuiltFromUrl =>
             LET d == DialectOf(last'.input[3])
             IN  /\ datastore'.access_lock = (d = "sqlite_memory")
                 /\ datastore'.write_lock = (d = "sqlite_file")]_vars
    /\ [][last'.op = "set_scoped_session" =>
             ~datastore'.access_lock /\ ~datastore'.write_lock]_vars
    /\ [](~(datastore.access_lock /\ datastore.write_lock))

\* A datastore built from a file SQLite URL has the write lock alone.
C27_Witness ==
    /\ last.op = "SQLAlchemyDatastore"
    /\ last.input = <<FALSE, FALSE, "sqlite:///events.db">>
    /\ datastore.write_lock /\ ~datastore.access_lock

\* C28: defining a table again with the same base class returns the class
\* made the first time, with a different base class raises ValueError; in
\* both cases the registry stays as it was.
C28_DefineIdempotent ==
    [][(/\ last'.op = "define_record_class"
        /\ record_classes[last'.input[2]] # NoRecordClass)
       => LET first == record_classes[last'.input[2]]
          IN  /\ record_classes' = record_classes
              /\ IF first.base_cls = last'.input[3]
                 THEN last'.exc = "" /\ last'.result = first
                 ELSE last'.exc = "ValueError"]_vars

\* A second definition under another class name got the first class back.
C28_Witness ==
    /\ last.op = "define_record_class"
    /\ last.exc = ""
    /\ last.result # NoRecordClass
    /\ last.result.cls_name # last.input[1]
    /\ record_classes[last.input[2]] = last.result

\* C29: SQLAlchemyDatastore() with no URL and no session factory raises
\* EnvironmentError.
C29_RaisesWithoutUrlOrFactory ==
    [][(/\ last'.op = "SQLAlchemyDatastore"
        /\ last'.input = <<FALSE, FALSE, NoUrl>>)
       => last'.exc = "EnvironmentError"]_vars

\* C24: subscribe on a backend other than PostgreSQL raises
\* NotImplementedError at once, returns no subscription and starts no
\* listener thread.
C24_SubscribeUnsupported ==
    /\ [][(last'.op = "subscribe" /\ dialect # "postgresql")
          => /\ last'.exc = "NotImplementedError"
             /\ last'.result = ""
             /\ subscription' = subscription]_vars
    /\ [](dialect # "postgresql" =>
             ~subscription.exists /\ subscription.thread = "none")

\* subscribe has failed on MSSQL.
C24_Witness ==
    /\ dialect = "mssql"
    /\ last.op = "subscribe" /\ last.exc = "NotImplementedError"
    /\ subscription = NoSubscription

\* The listener thread is in its loop.
Listening == subscription.thread \in {"loop", "select"}

\* C25: when the listener's connection fails, the listener ends and the
\* subscription is stopped; the error the listener meets on the connection
\* is captured unless an error was captured before, and a captured error
\* is never replaced; the consumer's next(subscription) then ends instead
\* of waiting, with the captured error when one is there as it looks.
C25_ListenerFailure ==
    /\ [][subscription.thread_error # "" =>
             subscription'.thread_error = subscription.thread_error]_vars
    /\ (subscription.conn = "broken" /\ Listening)
           ~> (subscription.thread = "dead"
               /\ subscription.has_been_stopped)
    /\ (subscription.conn = "broken" /\ subscription.thread = "select")
           ~> (/\ subscription.thread = "dead"
               /\ subscription.has_been_stopped
               /\ subscription.thread_error # "")
    /\ (subscription.thread = "dead" /\ subscription.thread_error # "")
           ~> (last.op = "next" /\ last.exc # "")
    /\ [][(/\ last'.op = "next" /\ last' # last
           /\ subscription.has_been_stopped
           /\ subscription.thread_error # "")
          => last'.exc = subscription.thread_error]_vars

\* The server closed the connection, the listener captured the error and
\* ended, and the consumer has been given that error.
C25_Witness ==
    /\ subscription.thread = "dead" /\ subscription.conn = "closed"
    /\ subscription.thread_error = "OperationalError"
    /\ subscription.has_been_stopped
    /\ last.op = "next" /\ last.exc = "OperationalError"

\* The step is a step of a recorder call of thread t, not of the owner of
\* the session.
RecorderStep(t) ==
    /\ last'.op \notin {"session.commit", "session.remove"} \/ last' = last
    /\ \/ call'[t] # call[t]
       \/ last' # last /\ last'.thread = t

\* C26: on a scoped session no step of a recorder call takes a lock,
\* begins a transaction, commits (the events table stays as it is), rolls
\* back or closes the session (what it has flushed stays in it, unless the
\* call fails); events become durable by the owner's commit alone, a
\* remove leaves none of the session's uncommitted events behind, and a
\* read gives the committed events and those of the thread's own session.
C26_ScopedSessionLeftToOwner ==
    /\ [][\A t \in Threads :
             RecorderStep(t)
             => /\ semaphore' = semaphore
                /\ ~transactions'[t].lock /\ transactions'[t].begun = 0
                /\ events' = events /\ tracking' = tracking
                /\ last'.exc = "" =>
                      /\ session[t].ins_events \subseteq session'[t].ins_events
                      /\ table_lock = t => table_lock' = t]_vars
    /\ [][events' # events => last'.op = "session.commit"]_vars
    /\ [][\A t \in Threads :
             (last'.op = "session.remove" /\ last'.thread = t /\ last' # last)
             => events' = events /\ session'[t] = NewSession]_vars
    /\ [][\A t \in Threads :
             (/\ last'.op = "select_notifications" /\ last'.thread = t
              /\ last' # last)
             => last'.rows \subseteq events \cup session[t].ins_events]_vars

\* A thread has inserted events that a reading call of the same thread
\* returns while no event is committed yet.
C26_Witness ==
    /\ datastore.scoped_session
    /\ events = {}
    /\ \E t \in Threads :
          /\ session[t].ins_events # {}
          /\ last.thread = t /\ last.op = "select_notifications"
          /\ last.list # <<>>

----------------------------------------------------------------------------
\* The exit of t's block is the swallow case of __exit__: the rollback
\* failed with the SQLAlchemy operational error of SQLite while the
\* transaction held a lock, and the except clause passed.
DocumentedSwallow(t) ==
    transactions[t].lock /\ last'.fault = SqliteOperationalError

\* C31: when the block of a transaction exits through an error and the
\* rollback that follows fails as well, the caller receives the error of
\* the block (as it is, or as the taxonomy error it is translated to), not
\* the error of the rollback, except in the swallow case.
C31_OriginalErrorKept ==
    [][\A t \in Threads :
          (/\ ExitStep(t) /\ last'.block_exc # "" /\ last'.fault # ""
           /\ ~DocumentedSwallow(t))
          => last'.exc \in {last'.block_exc, Translate(last'.block_exc)}]_vars

\* C38: whenever the listener thread has ended, the subscription has been
\* stopped or an error has been captured in it.
C38_NeverEndsSilently ==
    subscription.thread = "dead"
    => subscription.has_been_stopped \/ subscription.thread_error # ""

\* C33: once the subscription has been stopped, the listener leaves its
\* loop at the next test of the loop condition, after at most the one pass
\* through the body it was in, and its thread ends; the join of __exit__
\* returns.
C33_StoppedListenerEnds ==
    /\ [][(/\ subscription.has_been_stopped
            /\ subscription'.thread # subscription.thread)
          => /\ subscription.thread = "loop" => subscription'.thread = "dead"
             /\ subscription.thread = "select"
                => subscription'.thread \in {"loop", "dead"}]_vars
    /\ (subscription.has_been_stopped /\ subscription.exists)
          ~> (subscription.thread = "dead")
    /\ (subscription.exit = "join") ~> (subscription.exit = "done")

\* The owner left the with-block while the listener was waiting in its
\* loop, and __exit__ has returned.
C33_Witness ==
    /\ subscription.exit = "done"
    /\ subscription.conn = "closed"
    /\ subscription.thread_error = ""

\* C32: the commit of a transaction that inserted events on the backend
\* with push notification puts a signal on the connection of a listener
\* that is in its loop, and a listener with a signal on its connection, or
\* with a connection that failed, gets the has-been-notified flag set; the
\* end of a transaction that does not commit signals nothing to the
\* listener's connection and leaves the flag as it is.
C32_CommitSignalsListener ==
    /\ [][(/\ events' # events /\ NotifiesChannel(dialect, last'.stored_events)
            /\ Listening /\ subscription.conn = "open")
          => subscription'.pending = subscription.pending + 1]_vars
    /\ (Listening /\ subscription.pending > 0)
          ~> subscription.has_been_notified
    /\ (Listening /\ subscription.conn = "broken")
          ~> subscription.has_been_notified
    /\ [][\A t \in Threads :
             (EndsTransaction(t) /\ events' = events
              /\ last'.exc # "" /\ session[t].ins_events # {})
             => /\ subscription'.pending = subscription.pending
                /\ subscription'.has_been_notified
                      = subscription.has_been_notified]_vars

\* The listener has taken the signal of a committed insert and set the
\* flag of a subscription that is not stopped.
C32_Witness ==
    /\ events # {}
    /\ subscription.has_been_notified /\ ~subscription.has_been_stopped
    /\ subscription.pending = 0 /\ Listening

\* The step is thread t's transaction request that makes the datastore's
\* one WAL attempt, on the file database.
AttemptsWal(t) ==
    /\ ~tried_wal /\ tried_wal' /\ dialect = "sqlite_file"
    /\ calls' # calls
    /\ \/ transactions'[t] # transactions[t]
       \/ last'.thread = t /\ last' # last

\* C34: the transaction request that makes the WAL attempt yields a
\* transaction whether the attempt succeeds or not; after the attempt the
\* flag is_sqlite_wal_mode does not change any more, that is no later
\* request repeats it; on the in-memory database the flag stays False.
C34_WalFailureNonFatal ==
    /\ [][\A t \in Threads :
             AttemptsWal(t)
             => transactions'[t].active /\ transactions'[t].nested_level = 1]_vars
    /\ [][tried_wal => /\ tried_wal'
                       /\ is_sqlite_wal_mode' = is_sqlite_wal_mode]_vars
    /\ [](dialect \in {"sqlite_memory"} => ~is_sqlite_wal_mode)

\* C35: a transaction request is answered with a transaction of the
\* datastore it was made to: a block on the second datastore runs in a
\* transaction of the second datastore, and a recorder call runs in a
\* transaction of the recorder's datastore.
C35_TransactionOfOwnDatastore ==
    [][\A t \in Threads :
          /\ (/\ last' # last /\ last'.thread = t
              /\ last'.op = "transaction" /\ last'.input = <<"other">>
              /\ last'.exc = "")
             => transactions'[t].owner = "other"
          /\ (call[t].op = "idle" /\ call'[t].op # "idle")
             => transactions'[t].owner = "self"]_vars

\* C36: when a transaction request fails in the session creation or in
\* session.begin() after it has acquired the lock, the lock is free again
\* and the call context holds no transaction.
C36_FailedRequestLeavesNothing ==
    [][\A t \in Threads :
          (/\ last' # last /\ last'.thread = t /\ last'.op = "transaction"
           /\ last'.fault \in FailurePoints)
          => semaphore' = semaphore /\ ~transactions'[t].active]_vars

\* C37: the semaphore's count never exceeds 1, and a call context holds a
\* transaction only while the thread is in a with-block of it.
C37_ReleasesMatchAcquisitions ==
    /\ semaphore <= 1
    /\ \A t \in Threads :
          transactions[t].active => transactions[t].nested_level >= 1

\* C39: under the access lock an insert_tracking and an insert_events with
\* tracking that have begun come to their end; the read of
\* max_tracking_id in them leaves the semaphore as it is (the lock the
\* call holds) and runs in the transaction of the call.
C39_TrackingCallsTerminate ==
    /\ \A t \in Threads :
          (call[t].op \in {"insert_tracking", "insert_events"})
             ~> (call[t].op = "idle")
    /\ [][\A t \in Threads :
             (call[t].phase = "tracking" /\ call'[t].phase = "existing")
             => /\ semaphore = 0 /\ semaphore' = 0
                /\ transactions'[t] = transactions[t]]_vars

\* An insert_tracking that held the access lock has read max_tracking_id,
\* written the position and returned.
C39_Witness ==
    /\ HasAccessLock(dialect)
    /\ last.op = "insert_tracking" /\ last.exc = "" /\ ~last.nested
    /\ last.tracking \in tracking
    /\ semaphore = 1

====
